---- MODULE Spec2Model ----
(***************************************************************************)
(* Device/state synchronisation and fan-out core of the traffic backend.   *)
(*                                                                         *)
(* State: the Camera and Signal collections of the device store, the      *)
(* socket.io room membership of every connection, the handlers that are   *)
(* in flight (each suspended at one of its awaits) and the messages       *)
(* emitted so far.  One action per handler step: the code between two     *)
(* awaits runs without interruption on the event loop, a store operation  *)
(* (findByIdAndUpdate, findByIdAndDelete, findById, save) is atomic at    *)
(* the store.                                                             *)
(*                                                                         *)
(* JavaScript objects are records that hold exactly the keys that are     *)
(* present; a key whose value is undefined is absent from the record.     *)
(***************************************************************************)
EXTENDS Integers, Sequences, FiniteSets, TLC

\* Number of handler invocations (REST requests and socket events) of a run.
MaxReq == 2
\* Number of samples the Analytics collection holds when the dashboard is read.
MaxSamples == 4

VARIABLES
  store,          \* store[type][id]: the stored document, or Null
  rooms,          \* rooms[c]: the rooms connection c has joined
  connected,      \* the live socket connections
  reqs,           \* reqs[r]: the r-th handler invocation
  published,      \* the sequence of emitted messages
  clock,          \* the wall clock read by new Date()
  samples,        \* the Analytics collection, in insertion order
  omitUndefined,  \* whether the ODM build strips undefined keys of an update
  presented,      \* presented[c]: the tokens the live connection c sent with authenticate
  closed,         \* the connections that have disconnected
  users           \* users[r]: the credential of the r-th REST request

vars == <<store, rooms, connected, reqs, published, clock, samples, omitUndefined,
          presented, closed, users>>

----------------------------------------------------------------------------
(* Values *)

Types == {"camera", "signal"}
\* a device event may carry any type string
SocketTypes == {"camera", "signal", "gateway"}
Ids == {1, 2}
\* the ids of the documents the collections hold at start
InitialIds == {1}
Conns == {"s1", "s2"}
Reqs == 1..MaxReq

Null == [null |-> TRUE]
Undefined == [undefined |-> TRUE]
\* the empty object {}
NoBody == [f \in {} |-> TRUE]

\* camera settings objects
S0 == [nightMode |-> FALSE]
S1 == [nightMode |-> TRUE]

\* process.env.DEVICE_API_KEY and a key that differs from it
DeviceApiKey == "device-key"
WrongApiKey == "wrong-key"
ApiKeys == {DeviceApiKey, WrongApiKey}

\* the credentials of a REST request: no Authorization header, a token jwt.verify
\* rejects, or a valid token of a user with a role
NoToken == [token |-> "none"]
BadToken == [token |-> "invalid"]
UserOf(role) == [token |-> "valid", role |-> role]
AdminUser == UserOf("admin")
Users == {NoToken, BadToken} \cup {UserOf(role) : role \in {"viewer", "operator", "admin"}}

AdminRoom == <<"admin">>
\* io.emit: every connected socket
Everyone == <<"*">>
DeviceRoom(type, id) == <<type, id>>
\* socket.emit: the one connection
Direct(c) == <<"socket", c>>

----------------------------------------------------------------------------
(* Schemas: the paths each model declares.  location, coordinates,        *)
(* ipAddress, model, firmware and createdAt behave like name and are left *)
(* out.                                                                   *)

CameraPaths == {"name", "status", "lastSeen", "metrics", "settings"}
SignalPaths == {"name", "status", "mode", "currentPhase", "remainingTime",
                "congestionLevel", "lastSeen", "settings"}
\* the paths of camera.metrics
CameraMetricsPaths == {"vehicleCount", "congestionLevel", "averageSpeed", "vehicleTypes"}
\* index.js declares its own models over the same collections
ApiCameraPaths == {"name", "status", "lastUpdate"}
ApiSignalPaths == {"name", "status", "mode", "currentPhase", "remainingTime",
                   "congestionLevel", "lastUpdate"}

SchemaPaths(type) == IF type = "camera" THEN CameraPaths ELSE SignalPaths
ApiSchemaPaths(type) == IF type = "camera" THEN ApiCameraPaths ELSE ApiSignalPaths

\* null of the kind the path holds
NullOf(f) == IF f \in {"settings", "metrics"} THEN Null ELSE "null"

Restrict(rec, keys) == [f \in (DOMAIN rec) \cap keys |-> rec[f]]
Merge(doc, upd) ==
  [f \in (DOMAIN doc) \cup (DOMAIN upd) |-> IF f \in DOMAIN upd THEN upd[f] ELSE doc[f]]

----------------------------------------------------------------------------
(* The ODM (mongoose) operations the handlers call *)

\* req.body.f, metrics.f: the value of a key, "undefined" when it is absent
Val(obj, f) == IF f \in DOMAIN obj THEN obj[f] ELSE "undefined"
\* if (x): a present, non-empty string
Truthy(obj, f) == f \in DOMAIN obj /\ obj[f] # ""

\* The value a path stores: a nested object keeps the keys its schema declares.
CastValue(type, f, v) ==
  IF type = "camera" /\ f = "metrics" /\ v # Null
  THEN Restrict(v, CameraMetricsPaths)
  ELSE v

\* The update { $set: { f1, f2, ... } } built from the keys `fields` of `src`, as
\* the model of `type` casts it: strict mode drops the paths the schema does not
\* declare; a key whose value is undefined is dropped (omitUndefined) or sent as
\* null.
UpdatePaths(type, fields) == fields \cap SchemaPaths(type)
CastUpdate(type, fields, src) ==
  LET paths == UpdatePaths(type, fields)
      present == [f \in paths \cap DOMAIN src |-> CastValue(type, f, src[f])]
      undef == paths \ DOMAIN src
  IN  IF omitUndefined
      THEN present
      ELSE Merge(present, [f \in undef |-> NullOf(f)])

\* The document a model hydrates from a stored one: the paths of its schema.
Hydrate(paths, stored) == Restrict(stored, paths \cup {"_id"})

\* StoreAfterUpdate with { upsert: true }: a missing document is inserted
StoreAfterUpsert(type, id, upd) ==
  [store EXCEPT ![type][id] =
     IF @ = Null THEN Merge([_id |-> id], upd) ELSE Merge(@, upd)]

\* Model.findByIdAndUpdate(id, update, { new: true }): the collection after it, and
\* the document it resolves to (the updated one, or null when no document
\* matches; no upsert).
StoreAfterUpdate(type, id, upd) ==
  IF store[type][id] = Null
  THEN store
  ELSE [store EXCEPT ![type][id] = Merge(store[type][id], upd)]
FoundAfterUpdate(type, id, upd) ==
  IF store[type][id] = Null
  THEN Null
  ELSE Hydrate(SchemaPaths(type), Merge(store[type][id], upd))

\* Model.findByIdAndDelete(id): the collection after it, and the document it
\* resolves to (the removed one, or null).
StoreAfterDelete(type, id) == [store EXCEPT ![type][id] = Null]
FoundForDelete(paths, type, id) ==
  IF store[type][id] = Null THEN Null ELSE Hydrate(paths, store[type][id])

----------------------------------------------------------------------------
(* The fan-out bus (socket.io) *)

\* Recipients that takes every live connection for a member of every room
RecipientsBroadcast(room) == connected

\* The connections an emit to `room` reaches: the members at emit time.
Recipients(room) ==
  IF room = Everyone THEN connected
  ELSE IF room[1] = "socket" THEN {room[2]} \cap connected
  ELSE {c \in connected : room \in rooms[c]}

\* io.to(room).emit(event, payload), made by invocation r
Emit(r, event, room, payload) ==
  [req |-> r, event |-> event, room |-> room, payload |-> payload,
   rcpt |-> Recipients(room)]

----------------------------------------------------------------------------
(* Handler invocations *)

Idle == [pc |-> "idle"]

\* the r-th invocation can start: invocations are numbered in arrival order
CanStart(r) ==
  /\ reqs[r].pc = "idle"
  /\ IF r = 1 THEN TRUE ELSE reqs[r - 1].pc # "idle"

\* an invocation suspended at an await, holding what the awaited call resolves to
Pending(kind, type, id, body, conn, pc, doc, now) ==
  [kind |-> kind, type |-> type, id |-> id, body |-> body, conn |-> conn,
   pc |-> pc, doc |-> doc, now |-> now, status |-> 0, resp |-> Null,
   job |-> "none", sample |-> Null, agg |-> Null]

\* Respond, answering a success with the document read again from the store
RespondReread(r, code, body) ==
  reqs' = [reqs EXCEPT ![r] =
    [@ EXCEPT !.pc = "done", !.status = code,
              !.resp = IF code = 200 /\ store[reqs[r].type][reqs[r].id] # Null
                       THEN store[reqs[r].type][reqs[r].id]
                       ELSE body]]

\* res.status(code).json(body): the invocation is over
Respond(r, code, body) ==
  reqs' = [reqs EXCEPT ![r] = [@ EXCEPT !.pc = "done", !.status = code, !.resp = body]]

\* a socket handler returns: the invocation is over, nothing is answered
Return(r) == reqs' = [reqs EXCEPT ![r] = [@ EXCEPT !.pc = "done"]]

NotFoundBody(type) ==
  [message |-> IF type = "camera" THEN "Camera not found" ELSE "Signal not found"]


----------------------------------------------------------------------------
(* Request bodies the REST clients send *)

\* lastSeen and congestionLevel are paths of the schemas that the update routes do
\* not read from the body
CameraPutBodies ==
  {[name |-> "n1"], [status |-> "online"], [status |-> "warning"], [settings |-> S1],
   [name |-> "n1", lastSeen |-> 99]}
SignalPutBodies ==
  {[name |-> "n1"], [status |-> "online"],
   [mode |-> "Manual", currentPhase |-> "All-Way Red"],
   [name |-> "n1", congestionLevel |-> "High"]}
SettingsBodies == {[settings |-> S1], [name |-> "n1"]}

----------------------------------------------------------------------------
(* routes/cameras.js *)

\* CameraPutFields with every path of the schema
CameraPutFieldsAll == CameraPaths

\* const { name, location, coordinates, ipAddress, status, settings } = req.body
CameraPutFields == {"name", "status", "settings"}

\* router.put('/:id'): up to the await of findByIdAndUpdate
PutCamera(r) ==
  /\ CanStart(r)
  /\ \E id \in Ids, body \in CameraPutBodies :
       LET upd == CastUpdate("camera", CameraPutFields, body) IN
       /\ store' = StoreAfterUpdate("camera", id, upd)
       /\ reqs' = [reqs EXCEPT ![r] =
            Pending("putCamera", "camera", id, body, "none", "updated",
                    FoundAfterUpdate("camera", id, upd), 0)]
  /\ UNCHANGED <<rooms, connected, published, clock, samples, omitUndefined>>

\* the payload of a settings configUpdate: the settings of the request
SettingsPayload(body) ==
  IF "settings" \in DOMAIN body THEN body.settings ELSE Undefined

\* whether router.put('/:id') of cameras notifies the device room
CameraPutNotifiesDevice(body) == TRUE

\* router.put('/:id'): after the await
PutCameraResume(r) ==
  /\ reqs[r].pc = "updated"
  /\ reqs[r].kind = "putCamera"
  /\ LET q == reqs[r] IN
     IF q.doc = Null
     THEN /\ Respond(r, 404, NotFoundBody("camera"))
          /\ UNCHANGED published
     ELSE /\ published' = published
               \o <<Emit(r, "cameraUpdate", AdminRoom, q.doc)>>
               \o (IF CameraPutNotifiesDevice(q.body)
                   THEN <<Emit(r, "configUpdate", DeviceRoom("camera", q.doc._id),
                               SettingsPayload(q.body))>>
                   ELSE <<>>)
          /\ Respond(r, 200, q.doc)
  /\ UNCHANGED <<store, rooms, connected, clock, samples, omitUndefined>>

\* router.put('/:id/settings'): up to the await of findByIdAndUpdate
PutCameraSettings(r) ==
  /\ CanStart(r)
  /\ \E id \in Ids, body \in SettingsBodies :
       LET upd == CastUpdate("camera", {"settings"}, body) IN
       /\ store' = StoreAfterUpdate("camera", id, upd)
       /\ reqs' = [reqs EXCEPT ![r] =
            Pending("putCameraSettings", "camera", id, body, "none", "updated",
                    FoundAfterUpdate("camera", id, upd), 0)]
  /\ UNCHANGED <<rooms, connected, published, clock, samples, omitUndefined>>

\* router.put('/:id/settings'): after the await
PutCameraSettingsResume(r) ==
  /\ reqs[r].pc = "updated"
  /\ reqs[r].kind = "putCameraSettings"
  /\ LET q == reqs[r] IN
     IF q.doc = Null
     THEN /\ Respond(r, 404, NotFoundBody("camera"))
          /\ UNCHANGED published
     ELSE /\ published' = published
               \o <<Emit(r, "cameraUpdate", AdminRoom, q.doc),
                    Emit(r, "configUpdate", DeviceRoom("camera", q.doc._id),
                         SettingsPayload(q.body))>>
          /\ Respond(r, 200, q.doc)
  /\ UNCHANGED <<store, rooms, connected, clock, samples, omitUndefined>>

\* DeleteMissed without the null check
DeleteMissedNever(doc) == FALSE

\* whether findByIdAndDelete resolved to no document
DeleteMissed(doc) == doc = Null

\* router.delete('/:id'): up to the await of findByIdAndDelete
DeleteCamera(r) ==
  /\ CanStart(r)
  /\ \E id \in Ids :
       /\ store' = StoreAfterDelete("camera", id)
       /\ reqs' = [reqs EXCEPT ![r] =
            Pending("deleteCamera", "camera", id, NoBody, "none", "deleted",
                    FoundForDelete(CameraPaths, "camera", id), 0)]
  /\ UNCHANGED <<rooms, connected, published, clock, samples, omitUndefined>>

\* router.delete('/:id'): after the await
DeleteCameraResume(r) ==
  /\ reqs[r].pc = "deleted"
  /\ reqs[r].kind = "deleteCamera"
  /\ LET q == reqs[r] IN
     IF DeleteMissed(q.doc)
     THEN /\ Respond(r, 404, NotFoundBody("camera"))
          /\ UNCHANGED published
     ELSE /\ published' = published
               \o <<Emit(r, "cameraDeleted", AdminRoom, [id |-> q.id])>>
          /\ Respond(r, 200, [message |-> "Camera deleted successfully"])
  /\ UNCHANGED <<store, rooms, connected, clock, samples, omitUndefined>>

----------------------------------------------------------------------------
(* routes/signals.js *)

SignalPutFields == {"name", "status", "mode", "currentPhase", "remainingTime"}

\* router.put('/:id'): up to the await of findByIdAndUpdate
PutSignal(r) ==
  /\ CanStart(r)
  /\ \E id \in Ids, body \in SignalPutBodies :
       LET upd == CastUpdate("signal", SignalPutFields, body) IN
       /\ store' = StoreAfterUpdate("signal", id, upd)
       /\ reqs' = [reqs EXCEPT ![r] =
            Pending("putSignal", "signal", id, body, "none", "updated",
                    FoundAfterUpdate("signal", id, upd), 0)]
  /\ UNCHANGED <<rooms, connected, published, clock, samples, omitUndefined>>

\* { mode, currentPhase, remainingTime }
SignalConfigPayload(body) ==
  [mode |-> Val(body, "mode"), currentPhase |-> Val(body, "currentPhase"),
   remainingTime |-> Val(body, "remainingTime")]

\* if (mode || currentPhase)
SignalPutNotifiesDevice(body) == Truthy(body, "mode") \/ Truthy(body, "currentPhase")

\* router.put('/:id'): after the await
PutSignalResume(r) ==
  /\ reqs[r].pc = "updated"
  /\ reqs[r].kind = "putSignal"
  /\ LET q == reqs[r] IN
     IF q.doc = Null
     THEN /\ Respond(r, 404, NotFoundBody("signal"))
          /\ UNCHANGED published
     ELSE /\ published' = published
               \o <<Emit(r, "signalUpdate", AdminRoom, q.doc)>>
               \o (IF SignalPutNotifiesDevice(q.body)
                   THEN <<Emit(r, "configUpdate", DeviceRoom("signal", q.doc._id),
                               SignalConfigPayload(q.body))>>
                   ELSE <<>>)
          /\ Respond(r, 200, q.doc)
  /\ UNCHANGED <<store, rooms, connected, clock, samples, omitUndefined>>

\* router.put('/:id/settings'): up to the await of findByIdAndUpdate
PutSignalSettings(r) ==
  /\ CanStart(r)
  /\ \E id \in Ids, body \in SettingsBodies :
       LET upd == CastUpdate("signal", {"settings"}, body) IN
       /\ store' = StoreAfterUpdate("signal", id, upd)
       /\ reqs' = [reqs EXCEPT ![r] =
            Pending("putSignalSettings", "signal", id, body, "none", "updated",
                    FoundAfterUpdate("signal", id, upd), 0)]
  /\ UNCHANGED <<rooms, connected, published, clock, samples, omitUndefined>>

\* router.put('/:id/settings'): after the await
PutSignalSettingsResume(r) ==
  /\ reqs[r].pc = "updated"
  /\ reqs[r].kind = "putSignalSettings"
  /\ LET q == reqs[r] IN
     IF q.doc = Null
     THEN /\ Respond(r, 404, NotFoundBody("signal"))
          /\ UNCHANGED published
     ELSE /\ published' = published
               \o <<Emit(r, "signalUpdate", AdminRoom, q.doc),
                    Emit(r, "configUpdate", DeviceRoom("signal", q.doc._id),
                         SettingsPayload(q.body))>>
          /\ Respond(r, 200, q.doc)
  /\ UNCHANGED <<store, rooms, connected, clock, samples, omitUndefined>>

\* router.delete('/:id'): up to the await of findByIdAndDelete
DeleteSignal(r) ==
  /\ CanStart(r)
  /\ \E id \in Ids :
       /\ store' = StoreAfterDelete("signal", id)
       /\ reqs' = [reqs EXCEPT ![r] =
            Pending("deleteSignal", "signal", id, NoBody, "none", "deleted",
                    FoundForDelete(SignalPaths, "signal", id), 0)]
  /\ UNCHANGED <<rooms, connected, published, clock, samples, omitUndefined>>

\* router.delete('/:id'): after the await
DeleteSignalResume(r) ==
  /\ reqs[r].pc = "deleted"
  /\ reqs[r].kind = "deleteSignal"
  /\ LET q == reqs[r] IN
     IF DeleteMissed(q.doc)
     THEN /\ Respond(r, 404, NotFoundBody("signal"))
          /\ UNCHANGED published
     ELSE /\ published' = published
               \o <<Emit(r, "signalDeleted", AdminRoom, [id |-> q.id])>>
          /\ Respond(r, 200, [message |-> "Signal deleted successfully"])
  /\ UNCHANGED <<store, rooms, connected, clock, samples, omitUndefined>>


----------------------------------------------------------------------------
(* index.js: the /api routes, which load the document, assign and save it *)

ApiCameraPutBodies == {[name |-> "n1"], [status |-> "online"], [status |-> "offline"]}
ApiSignalPutBodies ==
  {[name |-> "n1"], [status |-> "online"],
   [mode |-> "Manual", currentPhase |-> "All-Way Red"]}

ApiCameraPutFields == {"name", "status"}
ApiSignalPutFields == {"name", "status", "mode", "currentPhase", "congestionLevel"}

ServerError == [message |-> "Server error"]

\* The validators save() runs: required paths are set, enum paths hold a member.
InEnum(doc, f, values) == f \notin DOMAIN doc \/ doc[f] \in values
ApiValid(type, doc) ==
  /\ "name" \in DOMAIN doc /\ doc.name \notin {"null", ""}
  /\ IF type = "camera"
     THEN InEnum(doc, "status", {"online", "offline", "warning"})
     ELSE /\ InEnum(doc, "status", {"online", "offline"})
          /\ InEnum(doc, "mode", {"AI", "Manual", "Scheduled"})
          /\ InEnum(doc, "congestionLevel", {"Low", "Medium", "High", "Unknown"})

\* if (f) doc.f = f, for each field of the route; doc.lastUpdate = new Date()
ApiAssign(doc, fields, body, now) ==
  Merge(Merge(doc, Restrict(body, {f \in fields : Truthy(body, f)})),
        [lastUpdate |-> now])

\* the paths save() writes: those whose value the handler changed
ModifiedPaths(loaded, doc) ==
  {f \in DOMAIN doc : f \notin DOMAIN loaded \/ loaded[f] # doc[f]}

\* Model.findById(id)
FindById(paths, type, id) ==
  IF store[type][id] = Null THEN Null ELSE Hydrate(paths, store[type][id])

\* app.put('/api/<type>s/:id'): up to the await of findById
ApiLoad(r, kind, type, bodies) ==
  /\ CanStart(r)
  /\ \E id \in Ids, body \in bodies :
       reqs' = [reqs EXCEPT ![r] =
         Pending(kind, type, id, body, "none", "loaded",
                 FindById(ApiSchemaPaths(type), type, id), 0)]
  /\ UNCHANGED <<store, rooms, connected, published, clock, samples, omitUndefined>>

\* app.put('/api/<type>s/:id'): from findById to the await of save()
ApiSave(r, kind, type, fields) ==
  /\ reqs[r].pc = "loaded"
  /\ reqs[r].kind = kind
  /\ LET q == reqs[r]
         doc == ApiAssign(q.doc, fields, q.body, clock)
     IN
     IF q.doc = Null
     THEN /\ Respond(r, 404, NotFoundBody(type))
          /\ UNCHANGED <<store, clock>>
     ELSE IF ~ApiValid(type, doc) \/ store[type][q.id] = Null
     THEN \* ValidationError, or DocumentNotFoundError: the catch answers 500
          /\ Respond(r, 500, ServerError)
          /\ clock' = clock + 1
          /\ UNCHANGED store
     ELSE /\ store' = [store EXCEPT ![type][q.id] =
                         Merge(@, Restrict(doc, ModifiedPaths(q.doc, doc)))]
          /\ reqs' = [reqs EXCEPT ![r] = [@ EXCEPT !.pc = "saved", !.doc = doc,
                                                   !.now = clock]]
          /\ clock' = clock + 1
  /\ UNCHANGED <<rooms, connected, published, samples, omitUndefined>>

\* app.put('/api/<type>s/:id'): after the await of save()
ApiPutResume(r, kind, event) ==
  /\ reqs[r].pc = "saved"
  /\ reqs[r].kind = kind
  /\ published' = published \o <<Emit(r, event, Everyone, reqs[r].doc)>>
  /\ Respond(r, 200, reqs[r].doc)
  /\ UNCHANGED <<store, rooms, connected, clock, samples, omitUndefined>>

ApiPutCamera(r) == ApiLoad(r, "apiPutCamera", "camera", ApiCameraPutBodies)
ApiPutCameraSave(r) == ApiSave(r, "apiPutCamera", "camera", ApiCameraPutFields)
ApiPutCameraResume(r) == ApiPutResume(r, "apiPutCamera", "cameraUpdate")

ApiPutSignal(r) == ApiLoad(r, "apiPutSignal", "signal", ApiSignalPutBodies)
ApiPutSignalSave(r) == ApiSave(r, "apiPutSignal", "signal", ApiSignalPutFields)
ApiPutSignalResume(r) == ApiPutResume(r, "apiPutSignal", "signalUpdate")

\* app.delete('/api/<type>s/:id'): up to the await of findByIdAndDelete
ApiDelete(r, kind, type) ==
  /\ CanStart(r)
  /\ \E id \in Ids :
       /\ store' = StoreAfterDelete(type, id)
       /\ reqs' = [reqs EXCEPT ![r] =
            Pending(kind, type, id, NoBody, "none", "deleted",
                    FoundForDelete(ApiSchemaPaths(type), type, id), 0)]
  /\ UNCHANGED <<rooms, connected, published, clock, samples, omitUndefined>>

\* app.delete('/api/<type>s/:id'): after the await
ApiDeleteResume(r, kind, type, event, done) ==
  /\ reqs[r].pc = "deleted"
  /\ reqs[r].kind = kind
  /\ LET q == reqs[r] IN
     IF DeleteMissed(q.doc)
     THEN /\ Respond(r, 404, NotFoundBody(type))
          /\ UNCHANGED published
     ELSE /\ published' = published \o <<Emit(r, event, Everyone, [id |-> q.id])>>
          /\ Respond(r, 200, [message |-> done])
  /\ UNCHANGED <<store, rooms, connected, clock, samples, omitUndefined>>

ApiDeleteCamera(r) == ApiDelete(r, "apiDeleteCamera", "camera")
ApiDeleteCameraResume(r) ==
  ApiDeleteResume(r, "apiDeleteCamera", "camera", "cameraRemoved",
                  "Camera removed successfully")
ApiDeleteSignal(r) == ApiDelete(r, "apiDeleteSignal", "signal")
ApiDeleteSignalResume(r) ==
  ApiDeleteResume(r, "apiDeleteSignal", "signal", "signalRemoved",
                  "Signal removed successfully")


\* authenticateToken: 401 without a token, 403 when jwt.verify fails, else next()
AuthenticateToken(user) ==
  IF user.token = "none" THEN 401
  ELSE IF user.token # "valid" THEN 403
  ELSE 200

\* AuthorizeRole that lets every role pass
AuthorizeRoleAny(roles, user) == 200

\* authorizeRole(roles): 403 unless the role of the user is one of roles
AuthorizeRole(roles, user) == IF user.role \in roles THEN 200 ELSE 403

\* the status the two middlewares answer, 200 when both call next()
Admission(roles, user) ==
  IF AuthenticateToken(user) # 200 THEN AuthenticateToken(user)
  ELSE AuthorizeRole(roles, user)
AdmissionBody(roles, user) ==
  [message |-> IF AuthenticateToken(user) = 401 THEN "Authentication required"
               ELSE IF AuthenticateToken(user) = 403 THEN "Invalid or expired token"
               ELSE "Insufficient permissions"]

OperatorRoles == {"admin", "operator"}
AdminRoles == {"admin"}

\* a route behind authenticateToken and authorizeRole(roles): a request the
\* middlewares turn down is answered by them, one they pass reaches the handler
ApiRoute(r, kind, type, roles, Handler) ==
  \E user \in Users :
    /\ users' = [users EXCEPT ![r] = user]
    /\ IF Admission(roles, user) = 200
       THEN Handler
       ELSE /\ CanStart(r)
            /\ \E id \in Ids :
                 reqs' = [reqs EXCEPT ![r] =
                   [Pending(kind, type, id, NoBody, "none", "done", Null, 0)
                      EXCEPT !.status = Admission(roles, user),
                             !.resp = AdmissionBody(roles, user)]]
            /\ UNCHANGED <<store, rooms, connected, published, clock, samples,
                           omitUndefined>>

\* the bodies of POST /api/cameras and POST /api/signals; name is required
ApiCameraPostBodies == {[name |-> "n2"], NoBody}
ApiSignalPostBodies == {[name |-> "n2"], [name |-> "n2", mode |-> "AI"], NoBody}

\* new Camera({ name, ..., status: 'offline' }), new Signal({ name, ...,
\* mode: mode || 'Scheduled', status: 'offline' }), with the defaults of the schema
NewApiDoc(type, id, body, now) ==
  Merge(IF type = "camera"
        THEN [_id |-> id, status |-> "offline", lastUpdate |-> now]
        ELSE [_id |-> id, status |-> "offline",
              mode |-> IF Truthy(body, "mode") THEN body.mode ELSE "Scheduled",
              currentPhase |-> "All-Way Red", remainingTime |-> "0s",
              congestionLevel |-> "Unknown", lastUpdate |-> now],
        Restrict(body, {"name"}))

\* the ids a new document can get: never stored and not given out before
FreshIds(type) ==
  {id \in Ids \ InitialIds :
     /\ store[type][id] = Null
     /\ \A x \in Reqs :
          reqs[x].pc = "idle" \/ reqs[x].type # type \/ reqs[x].id # id
            \/ reqs[x].kind \notin {"apiCreateCamera", "apiCreateSignal"}}

\* app.post('/api/<type>s'): up to the await of save(), which validates the
\* document and inserts it
ApiCreate(r, kind, type, bodies) ==
  /\ CanStart(r)
  /\ \E body \in bodies :
       IF ~ApiValid(type, NewApiDoc(type, 0, body, clock))
       THEN /\ reqs' = [reqs EXCEPT ![r] =
                 Pending(kind, type, 0, body, "none", "failed", Null, clock)]
            /\ UNCHANGED store
       ELSE \E id \in FreshIds(type) :
            /\ store' = [store EXCEPT ![type][id] = NewApiDoc(type, id, body, clock)]
            /\ reqs' = [reqs EXCEPT ![r] =
                 Pending(kind, type, id, body, "none", "saved",
                         NewApiDoc(type, id, body, clock), clock)]
  /\ clock' = clock + 1
  /\ UNCHANGED <<rooms, connected, published, samples, omitUndefined>>

\* app.post('/api/<type>s'): after the await; the catch answers 500
ApiCreateResume(r, kind, event) ==
  /\ reqs[r].pc \in {"saved", "failed"}
  /\ reqs[r].kind = kind
  /\ IF reqs[r].pc = "failed"
     THEN /\ Respond(r, 500, ServerError)
          /\ UNCHANGED published
     ELSE /\ published' = published \o <<Emit(r, event, Everyone, reqs[r].doc)>>
          /\ Respond(r, 201, reqs[r].doc)
  /\ UNCHANGED <<store, rooms, connected, clock, samples, omitUndefined>>

ApiCreateCamera(r) == ApiCreate(r, "apiCreateCamera", "camera", ApiCameraPostBodies)
ApiCreateCameraResume(r) == ApiCreateResume(r, "apiCreateCamera", "cameraUpdate")
ApiCreateSignal(r) == ApiCreate(r, "apiCreateSignal", "signal", ApiSignalPostBodies)
ApiCreateSignalResume(r) == ApiCreateResume(r, "apiCreateSignal", "signalUpdate")

\* the bodies of POST /:id/control: { phase, duration, mode }, each optional
ControlBodies ==
  {NoBody, [mode |-> "AI"], [mode |-> "Scheduled"], [phase |-> "All-Way Red"],
   [phase |-> "East-West Green", duration |-> 30]}

\* mode || 'Manual'
ControlMode(body) == IF Truthy(body, "mode") THEN body.mode ELSE "Manual"

\* `${duration}s`
RemainingText(duration) == ToString(duration) \o "s"

\* signal.mode = mode || 'Manual'; if (phase) signal.currentPhase = phase;
\* if (duration) signal.remainingTime = `${duration}s`
ControlAssign(doc, body) ==
  Merge(Merge(Merge(doc, [mode |-> ControlMode(body)]),
              IF Truthy(body, "phase") THEN [currentPhase |-> body.phase] ELSE NoBody),
        IF "duration" \in DOMAIN body /\ body.duration # 0
        THEN [remainingTime |-> RemainingText(body.duration)] ELSE NoBody)

\* the validators save() runs on a signal: name is required, mode is of its enum
SignalValid(doc) ==
  /\ "name" \in DOMAIN doc /\ doc.name \notin {"null", ""}
  /\ InEnum(doc, "mode", {"AI", "Manual", "Scheduled"})

\* router.post('/:id/control'): up to the await of findById
PostSignalControl(r) ==
  /\ CanStart(r)
  /\ \E id \in Ids, body \in ControlBodies :
       reqs' = [reqs EXCEPT ![r] =
         Pending("postSignalControl", "signal", id, body, "none", "loaded",
                 FindById(SignalPaths, "signal", id), 0)]
  /\ UNCHANGED <<store, rooms, connected, published, clock, samples, omitUndefined>>

\* router.post('/:id/control'): from findById to the await of save(); a document
\* that fails validation or was removed meanwhile makes save() reject, which the
\* catch answers
PostSignalControlSave(r) ==
  /\ reqs[r].pc = "loaded"
  /\ reqs[r].kind = "postSignalControl"
  /\ LET q == reqs[r]
         doc == ControlAssign(q.doc, q.body)
     IN
     IF q.doc = Null
     THEN /\ Respond(r, 404, NotFoundBody("signal"))
          /\ UNCHANGED store
     ELSE IF ~SignalValid(doc) \/ store["signal"][q.id] = Null
     THEN /\ Respond(r, 500, ServerError)
          /\ UNCHANGED store
     ELSE /\ store' = [store EXCEPT !["signal"][q.id] =
                         Merge(@, Restrict(doc, ModifiedPaths(q.doc, doc)))]
          /\ reqs' = [reqs EXCEPT ![r] = [@ EXCEPT !.pc = "saved", !.doc = doc]]
  /\ UNCHANGED <<rooms, connected, published, clock, samples, omitUndefined>>

\* router.post('/:id/control'): after the await of save()
PostSignalControlResume(r) ==
  /\ reqs[r].pc = "saved"
  /\ reqs[r].kind = "postSignalControl"
  /\ LET q == reqs[r] IN
     /\ published' = published
          \o <<Emit(r, "signalUpdate", AdminRoom, q.doc),
               Emit(r, "controlCommand", DeviceRoom("signal", q.doc._id),
                    [mode |-> q.doc.mode, phase |-> q.doc.currentPhase,
                     duration |-> Val(q.body, "duration")])>>
     /\ Respond(r, 200, q.doc)
  /\ UNCHANGED <<store, rooms, connected, clock, samples, omitUndefined>>

\* the mutating routes of routes/cameras.js and routes/signals.js, with the type
\* of their model
RestMutations ==
  {<<"putCamera", "camera">>, <<"putCameraSettings", "camera">>,
   <<"deleteCamera", "camera">>, <<"putSignal", "signal">>,
   <<"putSignalSettings", "signal">>, <<"deleteSignal", "signal">>}

\* a mutating route up to its await, when the store operation rejects (an id that
\* does not cast, a lost connection): nothing is written
StoreRejects(r) ==
  /\ CanStart(r)
  /\ \E m \in RestMutations, id \in Ids :
       reqs' = [reqs EXCEPT ![r] =
         Pending(m[1], m[2], id, NoBody, "none", "rejected", Null, 0)]
  /\ UNCHANGED <<store, rooms, connected, published, clock, samples, omitUndefined>>

\* CatchRejected that logs the error and answers nothing
CatchRejectedSilent(r) ==
  /\ reqs[r].pc = "rejected"
  /\ Return(r)
  /\ UNCHANGED <<store, rooms, connected, published, clock, samples, omitUndefined>>

\* catch (err) { console.error(...); res.status(500).json({ message: 'Server error' }) }
CatchRejected(r) ==
  /\ reqs[r].pc = "rejected"
  /\ Respond(r, 500, ServerError)
  /\ UNCHANGED <<store, rooms, connected, published, clock, samples, omitUndefined>>

----------------------------------------------------------------------------
(* socketHandlers.js *)

\* metrics payloads the devices push; junctionId is the key
\* processTrafficAnalytics reads and camera.metrics does not declare, "Moderate"
\* a label camera.metrics accepts and the Analytics enum does not
CameraMetrics ==
  {[vehicleCount |-> 4, congestionLevel |-> "High", vehicleTypes |-> [cars |-> 3]],
   [vehicleCount |-> 2, junctionId |-> 1],
   [vehicleCount |-> 1, congestionLevel |-> "Moderate"]}
SignalMetrics ==
  {[currentPhase |-> "East-West Green", remainingTime |-> "20s"],
   [currentPhase |-> "All-Way Red"]}
\* the data of a deviceData event besides type and id: {metrics}, or {} when the
\* device sends none
DataBodies(type) ==
  IF type = "camera" THEN {[metrics |-> m] : m \in CameraMetrics} \cup {NoBody}
  ELSE IF type = "signal" THEN {[metrics |-> m] : m \in SignalMetrics} \cup {NoBody}
  ELSE {NoBody}

\* connections are named in the order they arrive
ConnectedBefore(c) == IF c = "s1" THEN {} ELSE {"s1"}

\* io.on('connection'): a socket connects
Connect(c) ==
  /\ c \notin connected
  /\ c \notin closed
  /\ ConnectedBefore(c) \subseteq connected
  /\ connected' = connected \cup {c}
  /\ rooms' = [rooms EXCEPT ![c] = {}]
  /\ UNCHANGED <<store, reqs, published, clock, samples, omitUndefined>>

\* UpdateEvent with the camera branch's event in both branches
UpdateEventCamera(type) == "cameraUpdate"

\* the event of a device record: cameraUpdate or signalUpdate
UpdateEvent(type) == IF type = "camera" THEN "cameraUpdate" ELSE "signalUpdate"

\* the tokens a client presents: jwt.verify accepts the valid one, and throws
\* on one that is malformed or expired
Tokens == {"valid", "invalid", "expired"}

\* TokenVerifies without the verification
TokenVerifiesAlways(token) == TRUE

\* jwt.verify(token, secret) returns
TokenVerifies(token) == token = "valid"

\* socket.on('authenticate'): join 'admin' when the token verifies; a token that
\* does not is logged
Authenticate(c) ==
  /\ c \in connected
  /\ \E token \in Tokens :
       /\ presented' = [presented EXCEPT ![c] = @ \cup {token}]
       /\ rooms' = [rooms EXCEPT ![c] =
            IF TokenVerifies(token) THEN @ \cup {AdminRoom} ELSE @]
  /\ UNCHANGED <<store, connected, reqs, published, clock, samples, omitUndefined,
                 closed, users>>

\* RoomsAfterDisconnect that leaves the memberships in place
RoomsAfterDisconnectKept(c) == rooms

\* the rooms after a socket closed: socket.io removes it from every room
RoomsAfterDisconnect(c) == [rooms EXCEPT ![c] = {}]

\* socket.on('disconnect'): the socket has closed, for whatever reason; the
\* handler logs it
Disconnect(c) ==
  /\ c \in connected
  /\ connected' = connected \ {c}
  /\ closed' = closed \cup {c}
  /\ rooms' = RoomsAfterDisconnect(c)
  /\ presented' = [presented EXCEPT ![c] = {}]
  /\ UNCHANGED <<store, reqs, published, clock, samples, omitUndefined, users>>

\* the data of a cameraControl or signalControl event: {id, settings}, or nothing
CameraControlSettings == {[status |-> "online"], S1}
SignalControlSettings == {[status |-> "online"], [mode |-> "Manual", currentPhase |-> "All-Way Red"]}
ControlData(type) ==
  {[id |-> id, settings |-> st] :
     id \in Ids,
     st \in IF type = "camera" THEN CameraControlSettings ELSE SignalControlSettings}
  \cup {Undefined}

ControlFailure(type) ==
  [message |-> IF type = "camera" THEN "Failed to control camera"
               ELSE "Failed to control signal"]

\* socket.on('cameraControl' / 'signalControl'): up to the await of
\* findByIdAndUpdate(data.id, { $set: data.settings }); data.id of no data throws,
\* and the catch answers the socket
Control(r, kind, type) ==
  /\ CanStart(r)
  /\ \E c \in connected, data \in ControlData(type) :
       IF data = Undefined
       THEN /\ reqs' = [reqs EXCEPT ![r] =
                 Pending(kind, type, 0, data, c, "done", Null, 0)]
            /\ published' = published
                 \o <<Emit(r, "error", Direct(c), ControlFailure(type))>>
            /\ UNCHANGED store
       ELSE LET upd == CastUpdate(type, DOMAIN data.settings, data.settings) IN
            /\ store' = StoreAfterUpdate(type, data.id, upd)
            /\ reqs' = [reqs EXCEPT ![r] =
                 Pending(kind, type, data.id, data, c, "updated",
                         FoundAfterUpdate(type, data.id, upd), 0)]
            /\ UNCHANGED published
  /\ UNCHANGED <<rooms, connected, clock, samples, omitUndefined>>

\* socket.on('cameraControl' / 'signalControl'): after the await
ControlResume(r, kind, type) ==
  /\ reqs[r].pc = "updated"
  /\ reqs[r].kind = kind
  /\ published' = published
       \o <<Emit(r, UpdateEvent(type), AdminRoom, reqs[r].doc),
            Emit(r, "configUpdate", DeviceRoom(type, reqs[r].id), reqs[r].body.settings)>>
  /\ Return(r)
  /\ UNCHANGED <<store, rooms, connected, clock, samples, omitUndefined>>

CameraControl(r) == Control(r, "cameraControl", "camera")
CameraControlResume(r) == ControlResume(r, "cameraControl", "camera")
SignalControl(r) == Control(r, "signalControl", "signal")
SignalControlResume(r) == ControlResume(r, "signalControl", "signal")

\* KeyRejected without the comparison
KeyRejectedNever(apiKey) == FALSE

\* if (apiKey !== process.env.DEVICE_API_KEY) throw
KeyRejected(apiKey) == apiKey # DeviceApiKey

\* the rooms of the connection after socket.join(`${type}-${id}`)
JoinDeviceRoom(c, type, id) == rooms[c] \cup {DeviceRoom(type, id)}

\* socket.on('deviceConnect'): up to the await of findByIdAndUpdate, or to the end
\* when the key is rejected or the type is neither camera nor signal
DeviceConnect(r) ==
  /\ CanStart(r)
  /\ \E c \in connected, type \in SocketTypes, id \in Ids, apiKey \in ApiKeys :
       IF KeyRejected(apiKey)
       THEN /\ reqs' = [reqs EXCEPT ![r] =
                 Pending("deviceConnect", type, id, [apiKey |-> apiKey], c, "done",
                         Null, 0)]
            /\ published' = published
                 \o <<Emit(r, "error", Direct(c), [message |-> "Authentication failed"])>>
            /\ UNCHANGED <<rooms, clock>>
       ELSE /\ rooms' = [rooms EXCEPT ![c] = JoinDeviceRoom(c, type, id)]
            /\ reqs' = [reqs EXCEPT ![r] =
                 Pending("deviceConnect", type, id, [apiKey |-> apiKey], c,
                         IF type \in Types THEN "joined" ELSE "done", Null, clock)]
            /\ clock' = clock + 1
            /\ UNCHANGED published
  /\ UNCHANGED <<store, connected, samples, omitUndefined>>

\* ConnectUpdate that leaves the status out
ConnectUpdateSeenOnly(type, now) ==
  CastUpdate(type, {"lastSeen"}, [lastSeen |-> now])

\* ConnectUpdate that marks the device offline
ConnectUpdateOffline(type, now) ==
  CastUpdate(type, {"status", "lastSeen"}, [status |-> "offline", lastSeen |-> now])

\* { status: 'online', lastSeen: new Date() }
ConnectUpdate(type, now) ==
  CastUpdate(type, {"status", "lastSeen"}, [status |-> "online", lastSeen |-> now])

\* socket.on('deviceConnect'): findByIdAndUpdate runs at the store
DeviceConnectUpdate(r) ==
  /\ reqs[r].pc = "joined"
  /\ LET q == reqs[r]
         upd == ConnectUpdate(q.type, q.now)
     IN
     /\ store' = StoreAfterUpdate(q.type, q.id, upd)
     /\ reqs' = [reqs EXCEPT ![r] =
          [@ EXCEPT !.pc = "updated", !.doc = FoundAfterUpdate(q.type, q.id, upd)]]
  /\ UNCHANGED <<rooms, connected, published, clock, samples, omitUndefined>>

\* socket.on('deviceConnect'): findByIdAndUpdate rejects (an id that does not cast,
\* a lost connection); the catch answers the socket
DeviceConnectRejects(r) ==
  /\ reqs[r].pc = "joined"
  /\ published' = published
       \o <<Emit(r, "error", Direct(reqs[r].conn), [message |-> "Authentication failed"])>>
  /\ Return(r)
  /\ UNCHANGED <<store, rooms, connected, clock, samples, omitUndefined>>

\* socket.on('deviceConnect'): after the await
DeviceConnectResume(r) ==
  /\ reqs[r].pc = "updated"
  /\ reqs[r].kind = "deviceConnect"
  /\ published' = published
       \o <<Emit(r, UpdateEvent(reqs[r].type), AdminRoom, reqs[r].doc)>>
  /\ Return(r)
  /\ UNCHANGED <<store, rooms, connected, clock, samples, omitUndefined>>

\* The $set of deviceData: { lastSeen, metrics } for a camera, { lastSeen,
\* currentPhase, remainingTime, metrics } for a signal.
DataFields(type) ==
  IF type = "camera" THEN {"lastSeen", "metrics"}
  ELSE {"lastSeen", "currentPhase", "remainingTime", "metrics"}
DataSource(type, body, now) ==
  Merge(Merge([lastSeen |-> now], body),
        IF type = "signal" THEN Restrict(body.metrics, {"currentPhase", "remainingTime"})
        ELSE NoBody)
DataUpdate(type, body, now) == CastUpdate(type, DataFields(type), DataSource(type, body, now))

\* metrics.currentPhase of an event without metrics: a TypeError
DataThrows(type, body) == type = "signal" /\ "metrics" \notin DOMAIN body

\* socket.on('deviceData'): up to the await of findByIdAndUpdate, or to the end
\* when the type is neither camera nor signal or building the update throws
DeviceData(r) ==
  /\ CanStart(r)
  /\ \E c \in connected, type \in SocketTypes, id \in Ids :
     \E body \in DataBodies(type) :
       IF type \notin Types \/ DataThrows(type, body)
       THEN /\ reqs' = [reqs EXCEPT ![r] =
                 Pending("deviceData", type, id, body, c, "done", Null, 0)]
            /\ UNCHANGED <<store, clock>>
       ELSE LET upd == DataUpdate(type, body, clock) IN
            /\ store' = StoreAfterUpdate(type, id, upd)
            /\ reqs' = [reqs EXCEPT ![r] =
                 Pending("deviceData", type, id, body, c, "updated",
                         FoundAfterUpdate(type, id, upd), clock)]
            /\ clock' = clock + 1
  /\ UNCHANGED <<rooms, connected, published, samples, omitUndefined>>

\* x || d, for a number and for a string
NumOrElse(obj, f, d) == IF f \in DOMAIN obj /\ obj[f] # 0 THEN obj[f] ELSE d
StrOrElse(obj, f, d) == IF f \in DOMAIN obj /\ obj[f] # "" THEN obj[f] ELSE d

\* the document processTrafficAnalytics hands to Analytics.create
NewSample(metrics, now) ==
  Merge([timestamp |-> now,
         trafficVolume |-> NumOrElse(metrics, "vehicleCount", 0),
         congestionLevel |-> StrOrElse(metrics, "congestionLevel", "Low"),
         averageSpeed |-> NumOrElse(metrics, "averageSpeed", 0),
         vehicleTypes |-> IF "vehicleTypes" \in DOMAIN metrics THEN metrics.vehicleTypes
                          ELSE [cars |-> 0]],
        Restrict(metrics, {"junctionId"}))

\* socket.on('deviceData'): after the await; for a camera it calls
\* processTrafficAnalytics without awaiting it, which runs up to its first await
\* (Analytics.create) or throws on metrics that are undefined and returns
DeviceDataResume(r) ==
  /\ reqs[r].pc = "updated"
  /\ reqs[r].kind = "deviceData"
  /\ LET q == reqs[r] IN
     /\ published' = published \o <<Emit(r, UpdateEvent(q.type), AdminRoom, q.doc)>>
     /\ IF q.type = "camera" /\ "metrics" \in DOMAIN q.body
        THEN /\ reqs' = [reqs EXCEPT ![r] =
                  [@ EXCEPT !.pc = "done", !.job = "create",
                            !.sample = NewSample(q.body.metrics, clock)]]
             /\ clock' = clock + 1
        ELSE /\ Return(r)
             /\ UNCHANGED clock
  /\ UNCHANGED <<store, rooms, connected, samples, omitUndefined>>

\* the trailing window of the rollup, in clock units (hours)
DayWindow == 24

RECURSIVE SumOf(_, _)
SumOf(seq, f) == IF seq = <<>> THEN 0 ELSE Head(seq)[f] + SumOf(Tail(seq), f)

\* InWindow that matches the newest sample only
InWindowLatest(now) == SubSeq(samples, Len(samples), Len(samples))

\* $match: { timestamp: { $gte: now - 24h } }
InWindow(now) == SelectSeq(samples, LAMBDA x : x.timestamp >= now - DayWindow)

\* $match timestamp >= now - 24h, $group _id: null: the one group, or none when no
\* sample matches.  An average is kept as the sum and the count it divides.
Aggregate(now) ==
  LET w == InWindow(now) IN
  IF w = <<>> THEN Null
  ELSE [averageTrafficVolume |-> [sum |-> SumOf(w, "trafficVolume"), count |-> Len(w)],
        averageSpeed |-> [sum |-> SumOf(w, "averageSpeed"), count |-> Len(w)],
        vehicleTypesAggregate |-> [i \in 1..Len(w) |-> w[i].vehicleTypes]]

\* the validators of Analytics.create
SampleValid(x) == x.congestionLevel \in {"Low", "Medium", "High", "Unknown"}

\* processTrafficAnalytics: Analytics.create runs at the store; a ValidationError
\* is caught and logged
AnalyticsCreate(r) ==
  /\ reqs[r].pc # "idle"
  /\ reqs[r].job = "create"
  /\ IF SampleValid(reqs[r].sample)
     THEN /\ samples' = Append(samples, reqs[r].sample)
          /\ reqs' = [reqs EXCEPT ![r] = [@ EXCEPT !.job = "aggregate"]]
     ELSE /\ reqs' = [reqs EXCEPT ![r] = [@ EXCEPT !.job = "failed"]]
          /\ UNCHANGED samples
  /\ UNCHANGED <<store, rooms, connected, published, clock, omitUndefined>>

\* processTrafficAnalytics: Analytics.aggregate runs at the store
AnalyticsAggregate(r) ==
  /\ reqs[r].pc # "idle"
  /\ reqs[r].job = "aggregate"
  /\ reqs' = [reqs EXCEPT ![r] = [@ EXCEPT !.job = "emit", !.agg = Aggregate(clock)]]
  /\ clock' = clock + 1
  /\ UNCHANGED <<store, rooms, connected, published, samples, omitUndefined>>

\* AnalyticsAggregateFails whose catch answers the pushing socket, as the catch
\* of the control handlers does
AnalyticsAggregateFailsLoud(r) ==
  /\ reqs[r].pc # "idle"
  /\ reqs[r].job = "aggregate"
  /\ reqs' = [reqs EXCEPT ![r] = [@ EXCEPT !.job = "failed"]]
  /\ published' = published
       \o <<Emit(r, "error", Direct(reqs[r].conn), [message |-> "Failed to process analytics"])>>
  /\ UNCHANGED <<store, rooms, connected, clock, samples, omitUndefined>>

\* processTrafficAnalytics: Analytics.aggregate rejects (the store fails); the
\* catch logs the error
AnalyticsAggregateFails(r) ==
  /\ reqs[r].pc # "idle"
  /\ reqs[r].job = "aggregate"
  /\ reqs' = [reqs EXCEPT ![r] = [@ EXCEPT !.job = "failed"]]
  /\ UNCHANGED <<store, rooms, connected, published, clock, samples, omitUndefined>>

\* processTrafficAnalytics: if (aggregatedData.length > 0) emit analyticsUpdate
AnalyticsEmit(r) ==
  /\ reqs[r].pc # "idle"
  /\ reqs[r].job = "emit"
  /\ published' = published \o
       (IF reqs[r].agg # Null
        THEN <<Emit(r, "analyticsUpdate", AdminRoom, reqs[r].agg)>>
        ELSE <<>>)
  /\ reqs' = [reqs EXCEPT ![r] = [@ EXCEPT !.job = "done"]]
  /\ UNCHANGED <<store, rooms, connected, clock, samples, omitUndefined>>


----------------------------------------------------------------------------
(* index.js: the simulator every connection starts (simulateUpdates).  A   *)
(* tick of an interval is a handler invocation of its own; the interval    *)
(* fires while its connection is live.                                     *)

\* Math.random() < 0.1 ? a random status : no change
TickStatusChanges == {NoBody} \cup {[status |-> x] : x \in {"online", "offline", "warning"}}
\* the phase, remaining time and congestion level a signal tick draws
TickSignalChanges ==
  {[currentPhase |-> "East-West Green", remainingTime |-> "5s", congestionLevel |-> "Low"],
   [currentPhase |-> "All-Way Red", remainingTime |-> "49s", congestionLevel |-> "High"]}

\* Camera.find(), Signal.find({ status: 'online' }): the ids of the documents found
TickFound(type) ==
  {id \in Ids : /\ store[type][id] # Null
                /\ type = "signal" => store[type][id].status = "online"}

\* a tick up to the await of save(): find resolves, one document is drawn and
\* assigned; nothing happens when no document is found
Tick(r, kind, type, changes) ==
  /\ CanStart(r)
  /\ \E c \in connected :
       IF TickFound(type) = {}
       THEN /\ reqs' = [reqs EXCEPT ![r] =
                 Pending(kind, type, 0, NoBody, c, "done", Null, 0)]
       ELSE \E id \in TickFound(type), change \in changes :
            /\ reqs' = [reqs EXCEPT ![r] =
                 Pending(kind, type, id, change, c, "loaded",
                         FindById(ApiSchemaPaths(type), type, id), 0)]
  /\ UNCHANGED <<store, rooms, connected, published, clock, samples, omitUndefined>>

\* a tick from the assignment to the await of save(); a document removed in the
\* meantime makes save() reject, which the catch logs
TickSave(r, kind, type, fields) ==
  /\ reqs[r].pc = "loaded"
  /\ reqs[r].kind = kind
  /\ LET q == reqs[r]
         doc == ApiAssign(q.doc, fields, q.body, clock)
     IN
     IF ~ApiValid(type, doc) \/ store[type][q.id] = Null
     THEN /\ Return(r)
          /\ UNCHANGED store
     ELSE /\ store' = [store EXCEPT ![type][q.id] =
                         Merge(@, Restrict(doc, ModifiedPaths(q.doc, doc)))]
          /\ reqs' = [reqs EXCEPT ![r] = [@ EXCEPT !.pc = "saved", !.doc = doc,
                                                   !.now = clock]]
  /\ clock' = clock + 1
  /\ UNCHANGED <<rooms, connected, published, samples, omitUndefined>>

\* a tick after the await of save(): socket.emit to the connection of the interval
TickEmit(r, kind, event) ==
  /\ reqs[r].pc = "saved"
  /\ reqs[r].kind = kind
  /\ published' = published \o <<Emit(r, event, Direct(reqs[r].conn), reqs[r].doc)>>
  /\ Return(r)
  /\ UNCHANGED <<store, rooms, connected, clock, samples, omitUndefined>>

CameraTick(r) == Tick(r, "cameraInterval", "camera", TickStatusChanges)
CameraTickSave(r) == TickSave(r, "cameraInterval", "camera", {"status"})
CameraTickEmit(r) == TickEmit(r, "cameraInterval", "cameraUpdate")

SignalTick(r) == Tick(r, "signalInterval", "signal", TickSignalChanges)
SignalTickSave(r) ==
  TickSave(r, "signalInterval", "signal", {"currentPhase", "remainingTime", "congestionLevel"})
SignalTickEmit(r) == TickEmit(r, "signalInterval", "signalUpdate")

----------------------------------------------------------------------------
(* routes/dashboard.js: GET /overview and its 24-hour traffic trend.  A    *)
(* timestamp counts hours; an average is kept as the sum and the count it  *)
(* divides.                                                                *)

\* { $cond: [ { $eq: [level, 'High'] }, 3, { $cond: [ { $eq: [level, 'Moderate'] }, 2, 1 ] } ] }
CongestionScore(level) ==
  IF level = "High" THEN 3 ELSE IF level = "Moderate" THEN 2 ELSE 1

RECURSIVE ScoreSum(_)
ScoreSum(seq) ==
  IF seq = <<>> THEN 0
  ELSE CongestionScore(Head(seq).congestionLevel) + ScoreSum(Tail(seq))

\* the _id of the $group: { hour, day, month, year } of the timestamp
HourOf(timestamp) == [day |-> timestamp \div 24, hour |-> timestamp % 24]

\* $match timestamp >= last24Hours, $group by hour: the buckets, each with its
\* averages
HourlyTraffic(now) ==
  LET last24Hours == now - DayWindow
      matched == SelectSeq(samples, LAMBDA x : x.timestamp >= last24Hours)
      buckets == {HourOf(matched[i].timestamp) : i \in DOMAIN matched}
      of(b) == SelectSeq(matched, LAMBDA x : HourOf(x.timestamp) = b)
  IN  [b \in buckets |->
         [averageTrafficVolume |-> [sum |-> SumOf(of(b), "trafficVolume"),
                                    count |-> Len(of(b))],
          averageCongestion |-> [sum |-> ScoreSum(of(b)), count |-> Len(of(b))]]]

\* TrendLabel whose thresholds belong to the lower label
TrendLabelInclusive(avg) ==
  IF 2 * avg.sum <= 3 * avg.count THEN "Low"
  ELSE IF 2 * avg.sum <= 5 * avg.count THEN "Moderate"
  ELSE "High"

\* averageCongestion < 1.5 ? 'Low' : averageCongestion < 2.5 ? 'Moderate' : 'High'
TrendLabel(avg) ==
  IF 2 * avg.sum < 3 * avg.count THEN "Low"
  ELSE IF 2 * avg.sum < 5 * avg.count THEN "Moderate"
  ELSE "High"

\* Math.round of an average that is not negative
RoundAvg(avg) == (2 * avg.sum + avg.count) \div (2 * avg.count)

\* trafficTrend: hourlyTraffic.map(hour => ({ time, trafficVolume, congestionLevel }))
TrafficTrend(hourly) ==
  [b \in DOMAIN hourly |->
     [time |-> b.hour,
      trafficVolume |-> RoundAvg(hourly[b].averageTrafficVolume),
      congestionLevel |-> TrendLabel(hourly[b].averageCongestion)]]

\* router.get('/overview'): up to the await of the hourly aggregate
Overview(r) ==
  /\ CanStart(r)
  /\ reqs' = [reqs EXCEPT ![r] =
       Pending("overview", "none", 0, NoBody, "none", "aggregated",
               HourlyTraffic(clock), clock)]
  /\ clock' = clock + 1
  /\ UNCHANGED <<store, rooms, connected, published, samples, omitUndefined>>

\* router.get('/overview'): after the await, res.json(dashboardData)
OverviewResume(r) ==
  /\ reqs[r].pc = "aggregated"
  /\ reqs[r].kind = "overview"
  /\ Respond(r, 200, [trafficTrend |-> TrafficTrend(reqs[r].doc)])
  /\ UNCHANGED <<store, rooms, connected, published, clock, samples, omitUndefined>>

\* the samples the collection can hold: the labels the Analytics enum lets
\* through, in hours inside and outside the trailing window
TrendHours == {3, 25, 26}
TrendLevels == {"Low", "Medium", "High"}
TrendSamples ==
  {[timestamp |-> t, trafficVolume |-> CongestionScore(l) + 1, congestionLevel |-> l,
    averageSpeed |-> 0, vehicleTypes |-> [cars |-> 0]] :
     t \in TrendHours, l \in TrendLevels}

----------------------------------------------------------------------------
(* The GET routes: router.get('/:id') of routes/cameras.js and             *)
(* routes/signals.js, app.get('/api/analytics') of index.js                *)

\* router.get('/:id'): up to the await of findById
GetDevice(r) ==
  /\ CanStart(r)
  /\ \E type \in Types, id \in Ids :
       reqs' = [reqs EXCEPT ![r] =
         Pending("getDevice", type, id, NoBody, "none", "read",
                 FindById(SchemaPaths(type), type, id), 0)]
  /\ UNCHANGED <<store, rooms, connected, published, clock, samples, omitUndefined>>

\* router.get('/:id'): after the await
GetDeviceResume(r) ==
  /\ reqs[r].pc = "read"
  /\ reqs[r].kind = "getDevice"
  /\ IF reqs[r].doc = Null
     THEN Respond(r, 404, NotFoundBody(reqs[r].type))
     ELSE Respond(r, 200, reqs[r].doc)
  /\ UNCHANGED <<store, rooms, connected, published, clock, samples, omitUndefined>>

\* req.query.timeframe || 'day'
AnalyticsTimeframes == {"day", "week"}

\* the document app.get('/api/analytics') makes when it finds none
\* (averageWaitTime in tenths)
DefaultAnalytics(now) ==
  [date |-> now,
   trafficVolume |-> [total |-> 12450, peakHour |-> "5:00 PM - 6:00 PM", average |-> 520],
   congestion |-> [mostCongestedDay |-> "Friday", averageWaitTime |-> 42],
   vehicleDistribution |-> [cars |-> 68, motorcycles |-> 12, trucks |-> 20],
   signalPerformance |-> [avgGreenTime |-> 45, optimizationRate |-> 87]]

\* app.get('/api/analytics'): up to the await of findOne().sort({ date: -1 })
ApiGetAnalytics(r) ==
  /\ CanStart(r)
  /\ \E timeframe \in AnalyticsTimeframes :
       reqs' = [reqs EXCEPT ![r] =
         Pending("apiGetAnalytics", "none", 0, [timeframe |-> timeframe], "none",
                 "looked",
                 IF samples = <<>> THEN Null
                 ELSE samples[CHOOSE k \in DOMAIN samples :
                                \A j \in DOMAIN samples : samples[j].date <= samples[k].date],
                 0)]
  /\ UNCHANGED <<store, rooms, connected, published, clock, samples, omitUndefined>>

\* app.get('/api/analytics'): after findOne; with no document it makes the
\* default one and runs up to the await of its save()
ApiGetAnalyticsSave(r) ==
  /\ reqs[r].pc = "looked"
  /\ reqs[r].kind = "apiGetAnalytics"
  /\ IF reqs[r].doc = Null
     THEN /\ samples' = Append(samples, DefaultAnalytics(clock))
          /\ clock' = clock + 1
          /\ reqs' = [reqs EXCEPT ![r] =
               [@ EXCEPT !.pc = "found", !.doc = DefaultAnalytics(clock)]]
     ELSE /\ reqs' = [reqs EXCEPT ![r] = [@ EXCEPT !.pc = "found"]]
          /\ UNCHANGED <<samples, clock>>
  /\ UNCHANGED <<store, rooms, connected, published, omitUndefined>>

\* app.get('/api/analytics'): res.json(formattedAnalytics); for a week the total
\* is multiplied by 7 and the average by 1.2
ApiGetAnalyticsResume(r) ==
  /\ reqs[r].pc = "found"
  /\ reqs[r].kind = "apiGetAnalytics"
  /\ LET a == reqs[r].doc
         tf == reqs[r].body.timeframe
         volume == IF tf = "week"
                   THEN [a.trafficVolume EXCEPT !.total = @ * 7,
                                                !.average = (@ * 12) \div 10]
                   ELSE a.trafficVolume
     IN  Respond(r, 200, Merge([a EXCEPT !.trafficVolume = volume],
                               [timeframe |-> tf]))
  /\ UNCHANGED <<store, rooms, connected, published, clock, samples, omitUndefined>>

----------------------------------------------------------------------------
(* The system *)

\* the documents the collections hold at start
InitialDoc(type, id) ==
  IF type = "camera"
  THEN [_id |-> id, name |-> "n0", status |-> "offline", settings |-> S0,
        lastUpdate |-> 0]
  ELSE [_id |-> id, name |-> "n0", status |-> "offline", mode |-> "Scheduled",
        currentPhase |-> "North-South Green", remainingTime |-> "0s",
        congestionLevel |-> "Unknown", lastUpdate |-> 0]

Init ==
  /\ store = [t \in Types |-> [i \in Ids |->
                IF i \in InitialIds THEN InitialDoc(t, i) ELSE Null]]
  /\ rooms = [c \in Conns |-> {}]
  /\ connected = {}
  /\ reqs = [r \in Reqs |-> Idle]
  /\ published = <<>>
  /\ clock = 1
  /\ samples = <<>>
  /\ omitUndefined \in BOOLEAN
  /\ presented = [c \in Conns |-> {}]
  /\ closed = {}
  /\ users = [r \in Reqs |-> AdminUser]

\* the REST handlers of routes/cameras.js, routes/signals.js and index.js
RestStep(r) ==
  \/ PutCamera(r) \/ PutCameraResume(r)
  \/ PutCameraSettings(r) \/ PutCameraSettingsResume(r)
  \/ DeleteCamera(r) \/ DeleteCameraResume(r)
  \/ PutSignal(r) \/ PutSignalResume(r)
  \/ PutSignalSettings(r) \/ PutSignalSettingsResume(r)
  \/ DeleteSignal(r) \/ DeleteSignalResume(r)
  \/ ApiPutCamera(r) \/ ApiPutCameraSave(r) \/ ApiPutCameraResume(r)
  \/ ApiPutSignal(r) \/ ApiPutSignalSave(r) \/ ApiPutSignalResume(r)
  \/ ApiDeleteCamera(r) \/ ApiDeleteCameraResume(r)
  \/ ApiDeleteSignal(r) \/ ApiDeleteSignalResume(r)

\* socket.on('deviceConnect')
ConnectStep(r) ==
  \/ DeviceConnect(r) \/ DeviceConnectUpdate(r) \/ DeviceConnectResume(r)

\* socket.on('deviceData') and the processTrafficAnalytics it starts
DataStep(r) ==
  \/ DeviceData(r) \/ DeviceDataResume(r)
  \/ AnalyticsCreate(r) \/ AnalyticsAggregate(r) \/ AnalyticsAggregateFails(r)
  \/ AnalyticsEmit(r)

\* socket.on('authenticate'), 'cameraControl' and 'signalControl'
ControlStep(r) ==
  \/ CameraControl(r) \/ CameraControlResume(r)
  \/ SignalControl(r) \/ SignalControlResume(r)

\* the simulator of index.js
SimStep(r) ==
  \/ CameraTick(r) \/ CameraTickSave(r) \/ CameraTickEmit(r)
  \/ SignalTick(r) \/ SignalTickSave(r) \/ SignalTickEmit(r)

\* the /api routes of index.js behind their middlewares
ApiStep(r) ==
  \/ ApiRoute(r, "apiCreateCamera", "camera", OperatorRoles, ApiCreateCamera(r))
  \/ ApiRoute(r, "apiPutCamera", "camera", OperatorRoles, ApiPutCamera(r))
  \/ ApiRoute(r, "apiDeleteCamera", "camera", AdminRoles, ApiDeleteCamera(r))
  \/ ApiRoute(r, "apiCreateSignal", "signal", OperatorRoles, ApiCreateSignal(r))
  \/ ApiRoute(r, "apiPutSignal", "signal", OperatorRoles, ApiPutSignal(r))
  \/ ApiRoute(r, "apiDeleteSignal", "signal", AdminRoles, ApiDeleteSignal(r))
  \/ /\ \/ ApiCreateCameraResume(r) \/ ApiCreateSignalResume(r)
        \/ ApiPutCameraSave(r) \/ ApiPutCameraResume(r)
        \/ ApiPutSignalSave(r) \/ ApiPutSignalResume(r)
        \/ ApiDeleteCameraResume(r) \/ ApiDeleteSignalResume(r)
     /\ UNCHANGED users

\* a store operation of routes/cameras.js or routes/signals.js that rejects
FaultStep(r) == StoreRejects(r) \/ CatchRejected(r)

\* GET /overview of routes/dashboard.js
TrendStep(r) == Overview(r) \/ OverviewResume(r)

\* the GET routes
ReadStep(r) ==
  \/ GetDevice(r) \/ GetDeviceResume(r)
  \/ ApiGetAnalytics(r) \/ ApiGetAnalyticsSave(r) \/ ApiGetAnalyticsResume(r)

\* POST /:id/control of routes/signals.js
PostControlStep(r) ==
  PostSignalControl(r) \/ PostSignalControlSave(r) \/ PostSignalControlResume(r)

\* the steps of the connections themselves
Session(c) == Connect(c) /\ UNCHANGED <<presented, closed, users>>
\* the steps of the handlers of requests that passed the middlewares
Handlers(A) == A /\ UNCHANGED <<presented, closed, users>>

\* the whole system
Next ==
  \/ \E c \in Conns : Session(c) \/ Authenticate(c) \/ Disconnect(c)
  \/ \E r \in Reqs :
       \/ Handlers(RestStep(r) \/ ConnectStep(r) \/ DataStep(r) \/ SimStep(r)
                   \/ ControlStep(r) \/ FaultStep(r) \/ TrendStep(r)
                   \/ DeviceConnectRejects(r) \/ PostControlStep(r)
                   \/ ReadStep(r))
       \/ ApiStep(r) /\ UNCHANGED <<presented, closed>>

Spec == Init /\ [][Next]_vars

\* the REST clients alone, their requests made by an admin
NextRest == \E r \in Reqs : Handlers(RestStep(r))
SpecRest == Init /\ [][NextRest]_vars

\* devices that connect
NextConnect ==
  \/ \E c \in Conns : Session(c)
  \/ \E r \in Reqs : Handlers(ConnectStep(r))
SpecConnect == Init /\ [][NextConnect]_vars

\* a device that pushes telemetry
NextData ==
  \/ Session("s1")
  \/ \E r \in Reqs : Handlers(DataStep(r))
SpecData == Init /\ [][NextData]_vars

\* the handlers of socketHandlers.js that write to the store
NextSocket ==
  \/ \E c \in Conns : Session(c)
  \/ \E r \in Reqs : Handlers(ControlStep(r) \/ ConnectStep(r) \/ DataStep(r))
SpecSocket == Init /\ [][NextSocket]_vars

\* dashboards that authenticate, or do not, and send control events
NextControl ==
  \/ \E c \in Conns : Session(c) \/ Authenticate(c)
  \/ \E r \in Reqs : Handlers(ControlStep(r))
SpecControl == Init /\ [][NextControl]_vars

\* the life of the connections: dashboards that authenticate, devices that
\* connect, and disconnects
NextAdmin ==
  \/ \E c \in Conns : Session(c) \/ Authenticate(c) \/ Disconnect(c)
  \/ \E r \in Reqs : Handlers(ConnectStep(r))
SpecAdmin == Init /\ [][NextAdmin]_vars

\* connections that leave while a deviceConnect or a tick of their camera
\* interval is in flight
NextLeave ==
  \/ \E c \in Conns : Session(c) \/ Authenticate(c) \/ Disconnect(c)
  \/ \E r \in Reqs :
       Handlers(\/ ConnectStep(r)
                \/ CameraTick(r) \/ CameraTickSave(r) \/ CameraTickEmit(r))
SpecLeave == Init /\ [][NextLeave]_vars

\* index.js alone: a dashboard connects, which starts its simulator, while an
\* operator updates signals
NextSim ==
  \/ Session("s1")
  \/ \E r \in Reqs :
       Handlers(\/ SimStep(r)
                \/ ApiPutSignal(r) \/ ApiPutSignalSave(r) \/ ApiPutSignalResume(r))
SpecSim == Init /\ [][NextSim]_vars

\* the /api routes of index.js and the credentials of their callers
NextAuth == \E r \in Reqs : ApiStep(r) /\ UNCHANGED <<presented, closed>>
SpecAuth == Init /\ [][NextAuth]_vars

\* dashboards that connect and authenticate while REST requests publish
NextFanout ==
  \/ \E c \in Conns : Session(c) \/ Authenticate(c)
  \/ \E r \in Reqs :
       Handlers(\/ PutSignal(r) \/ PutSignalResume(r)
                \/ ApiPutCamera(r) \/ ApiPutCameraSave(r) \/ ApiPutCameraResume(r)
                \/ ApiCreateSignal(r) \/ ApiCreateSignalResume(r))
SpecFanout == Init /\ [][NextFanout]_vars

\* devices that connect while the store rejects some of their status updates
NextConnectFault ==
  \/ \E c \in Conns : Session(c)
  \/ \E r \in Reqs : Handlers(ConnectStep(r) \/ DeviceConnectRejects(r))
SpecConnectFault == Init /\ [][NextConnectFault]_vars

\* devices that connect and leave while cameras are updated, controlled and
\* simulated
NextStatus ==
  \/ \E c \in Conns : Session(c) \/ Disconnect(c)
  \/ \E r \in Reqs :
       Handlers(\/ ConnectStep(r)
                \/ PutCamera(r) \/ PutCameraResume(r)
                \/ CameraControl(r) \/ CameraControlResume(r)
                \/ CameraTick(r) \/ CameraTickSave(r) \/ CameraTickEmit(r))
SpecStatus == Init /\ [][NextStatus]_vars

\* clients that read devices and the analytics of index.js
NextReads == \E r \in Reqs : Handlers(ReadStep(r))
SpecReads == Init /\ [][NextReads]_vars

\* operators that control signals by hand while signals are deleted
NextPostControl ==
  \E r \in Reqs :
    Handlers(PostControlStep(r) \/ DeleteSignal(r) \/ DeleteSignalResume(r))
SpecPostControl == Init /\ [][NextPostControl]_vars

\* REST requests, some of whose store operations reject
NextFault == \E r \in Reqs : Handlers(RestStep(r) \/ FaultStep(r))
SpecFault == Init /\ [][NextFault]_vars

\* the dashboard read over a filled Analytics collection: samples are inserted
\* with the time of their insert, so their timestamps do not decrease
InitTrend ==
  /\ store = [t \in Types |-> [i \in Ids |->
                IF i \in InitialIds THEN InitialDoc(t, i) ELSE Null]]
  /\ rooms = [c \in Conns |-> {}]
  /\ connected = {}
  /\ reqs = [r \in Reqs |-> Idle]
  /\ published = <<>>
  /\ clock = DayWindow + 6
  /\ samples \in {q \in UNION {[1..n -> TrendSamples] : n \in 0..MaxSamples} :
                    \A i \in 1..(Len(q) - 1) : q[i].timestamp <= q[i + 1].timestamp}
  /\ omitUndefined \in BOOLEAN
  /\ presented = [c \in Conns |-> {}]
  /\ closed = {}
  /\ users = [r \in Reqs |-> AdminUser]

NextTrend == \E r \in Reqs : Handlers(TrendStep(r))
SpecTrend == InitTrend /\ [][NextTrend]_vars

----------------------------------------------------------------------------
(* Vocabulary of the properties *)

UpdateKinds == {"putCamera", "putCameraSettings", "putSignal", "putSignalSettings",
                "apiPutCamera", "apiPutSignal"}
DeleteKinds == {"deleteCamera", "deleteSignal", "apiDeleteCamera", "apiDeleteSignal"}
UpdateEvents == {"cameraUpdate", "signalUpdate"}
DeletionEvents == {"cameraDeleted", "signalDeleted", "cameraRemoved", "signalRemoved"}

Started(r) == reqs[r].pc # "idle"
Done(r) == reqs[r].pc = "done"

\* the positions in `published` of the messages invocation r emitted
MsgsOf(r) == {i \in DOMAIN published : published[i].req = r}
MsgsOfEvent(r, events) == {i \in MsgsOf(r) : published[i].event \in events}

\* a room whose members include every member of "admin"
ReachesAdmin(room) == room \in {AdminRoom, Everyone}

\* the update event of the live-channel interface for a device type
EventOfType(type) == IF type = "camera" THEN "cameraUpdate" ELSE "signalUpdate"

\* a REST update that answered 200
UpdateSucceeded(r) ==
  /\ Started(r) /\ reqs[r].kind \in UpdateKinds
  /\ Done(r) /\ reqs[r].status = 200

----------------------------------------------------------------------------
(* C1: every REST device update that succeeds has published exactly one   *)
(* cameraUpdate/signalUpdate, to a room that reaches "admin", and its     *)
(* payload is the record the HTTP response carries, also when another     *)
(* mutation of the same id ran between the store operation and the        *)
(* publish.                                                               *)
C1_AckEqualsBroadcast ==
  \A r \in Reqs :
    UpdateSucceeded(r) =>
      /\ Cardinality(MsgsOfEvent(r, UpdateEvents)) = 1
      /\ \A i \in MsgsOfEvent(r, UpdateEvents) :
           /\ published[i].payload = reqs[r].resp
           /\ ReachesAdmin(published[i].room)

\* two updates of the same record succeeded, and the later one ran and published
\* while the earlier one was suspended
C1_Witness ==
  \E i, j \in DOMAIN published :
    /\ i < j
    /\ published[i].req = 2 /\ published[j].req = 1
    /\ published[i].event \in UpdateEvents /\ published[j].event \in UpdateEvents
    /\ UpdateSucceeded(1) /\ UpdateSucceeded(2)
    /\ reqs[1].type = reqs[2].type /\ reqs[1].id = reqs[2].id
    /\ reqs[1].resp # reqs[2].resp

----------------------------------------------------------------------------
(* C2 (as stated): a PUT /signals/:id, of routes/signals.js or index.js,  *)
(* on an existing signal with mode or currentPhase in the body has        *)
(* published one signalUpdate with the stored record to "admin" and one   *)
(* configUpdate {mode, currentPhase, remainingTime} to "signal-<id>", and *)
(* the stored record has the requested mode and phase.                    *)
ControlBody(body) == "mode" \in DOMAIN body \/ "currentPhase" \in DOMAIN body

C2_TwoPublishes ==
  \A r \in Reqs :
    (UpdateSucceeded(r) /\ reqs[r].kind \in {"putSignal", "apiPutSignal"}
       /\ ControlBody(reqs[r].body)) =>
      LET q == reqs[r]
          ups == MsgsOfEvent(r, {"signalUpdate"})
          cfs == MsgsOfEvent(r, {"configUpdate"})
      IN
      /\ Cardinality(ups) = 1 /\ Cardinality(cfs) = 1
      /\ \A i \in ups : published[i].payload = q.doc /\ ReachesAdmin(published[i].room)
      /\ \A i \in cfs :
           /\ published[i].room = DeviceRoom("signal", q.id)
           /\ DOMAIN published[i].payload = {"mode", "currentPhase", "remainingTime"}
      /\ \A f \in {"mode", "currentPhase"} \cap DOMAIN q.body : q.doc[f] = q.body[f]

----------------------------------------------------------------------------
(* C3 (as stated): a REST update publishes a configUpdate only if its     *)
(* body holds a control-relevant field (currentPhase, mode or settings).  *)
ControlRelevant == {"mode", "currentPhase", "settings"}

C3_ConfigOnlyForControl ==
  \A r \in Reqs :
    (Started(r) /\ reqs[r].kind \in UpdateKinds
       /\ MsgsOfEvent(r, {"configUpdate"}) # {}) =>
      ControlRelevant \cap DOMAIN reqs[r].body # {}

----------------------------------------------------------------------------
(* C4: a REST update or settings update whose lookup finds no document    *)
(* answers 404, has emitted nothing, and its store operation changed no   *)
(* document.                                                              *)
LookupMissed(r) ==
  Started(r) /\ reqs[r].kind \in UpdateKinds /\ reqs[r].doc = Null

C4_State ==
  \A r \in Reqs :
    LookupMissed(r) =>
      /\ MsgsOf(r) = {}
      /\ reqs[r].status \in {0, 404}
      /\ Done(r) => reqs[r].status = 404

\* a step in which an update of a missing id starts, or goes on after its lookup
C4_Step ==
  \A r \in Reqs :
    (reqs'[r] # reqs[r] /\ reqs'[r].kind \in UpdateKinds /\ reqs'[r].doc = Null) =>
      store' = store

C4_NotFound == [](C4_State) /\ [][C4_Step]_vars

\* an update of the missing id 2 was answered 404 while document 1 is as created
C4_Witness ==
  \E r \in Reqs :
    /\ LookupMissed(r) /\ Done(r) /\ reqs[r].status = 404
    /\ reqs[r].id = 2
    /\ store[reqs[r].type][1] = InitialDoc(reqs[r].type, 1)

----------------------------------------------------------------------------
(* C5: a delete that finds no document (never stored, or removed by a     *)
(* concurrent delete) answers 404 and emits nothing; at most one deletion *)
(* notice is published per document, and of the concurrent deletes of one *)
(* stored document exactly one finds it, answers 200 and publishes the    *)
(* notice.                                                                *)
IsDelete(r) == Started(r) /\ reqs[r].kind \in DeleteKinds

NoticesFor(type, id) ==
  {i \in DOMAIN published :
     /\ published[i].event \in DeletionEvents
     /\ reqs[published[i].req].type = type
     /\ published[i].payload = [id |-> id]}

C5_DeleteMissing ==
  /\ \A r \in Reqs :
       (IsDelete(r) /\ reqs[r].doc = Null) =>
         /\ MsgsOf(r) = {}
         /\ Done(r) => reqs[r].status = 404
  /\ \A t \in Types, id \in Ids : Cardinality(NoticesFor(t, id)) <= 1
  /\ \A t \in Types, id \in InitialIds :
       LET D == {r \in Reqs : IsDelete(r) /\ reqs[r].type = t /\ reqs[r].id = id} IN
       D # {} =>
         /\ Cardinality({r \in D : reqs[r].doc # Null}) = 1
         /\ \A r \in D :
              Done(r) =>
                /\ reqs[r].status = IF reqs[r].doc # Null THEN 200 ELSE 404
                /\ Cardinality(MsgsOf(r)) = IF reqs[r].doc # Null THEN 1 ELSE 0

\* the second delete of document 1 was answered 404 with nothing emitted while the
\* first, which removed it, is still suspended before its publish
C5_Witness ==
  /\ IsDelete(1) /\ IsDelete(2)
  /\ reqs[1].type = reqs[2].type /\ reqs[1].id = 1 /\ reqs[2].id = 1
  /\ reqs[1].pc = "deleted" /\ reqs[1].doc # Null
  /\ Done(2) /\ reqs[2].status = 404 /\ MsgsOf(2) = {}

----------------------------------------------------------------------------
(* C6 (as stated): a REST delete that succeeds has removed the record and *)
(* published exactly one message, to "admin", whose payload is the id     *)
(* only and whose event is cameraDeleted for a camera and signalRemoved   *)
(* for a signal.                                                          *)
InterfaceDeletionEvent(type) ==
  IF type = "camera" THEN "cameraDeleted" ELSE "signalRemoved"

C6_DeletionNotice ==
  \A r \in Reqs :
    (IsDelete(r) /\ Done(r) /\ reqs[r].status = 200) =>
      /\ store[reqs[r].type][reqs[r].id] = Null
      /\ Cardinality(MsgsOf(r)) = 1
      /\ \A i \in MsgsOf(r) :
           /\ ReachesAdmin(published[i].room)
           /\ published[i].payload = [id |-> reqs[r].id]
           /\ published[i].event = InterfaceDeletionEvent(reqs[r].type)


----------------------------------------------------------------------------
(* C7: a deviceConnect whose apiKey differs from the device secret is     *)
(* over at once with one error event to the calling connection and        *)
(* nothing else; every room a connection is in was joined by a            *)
(* deviceConnect of that connection that carried the secret, and every    *)
(* status that changed to online was set by such a deviceConnect for that *)
(* device.                                                                *)
IsConnect(r) == Started(r) /\ reqs[r].kind = "deviceConnect"
WrongKey(r) == IsConnect(r) /\ reqs[r].body.apiKey # DeviceApiKey
RightKey(r) == IsConnect(r) /\ reqs[r].body.apiKey = DeviceApiKey

C7_WrongSecret ==
  /\ \A r \in Reqs :
       WrongKey(r) =>
         /\ Done(r) /\ reqs[r].doc = Null
         /\ Cardinality(MsgsOf(r)) = 1
         /\ \A i \in MsgsOf(r) :
              /\ published[i].event = "error"
              /\ published[i].room = Direct(reqs[r].conn)
  /\ \A c \in Conns : \A room \in rooms[c] :
       \E r \in Reqs :
         RightKey(r) /\ reqs[r].conn = c /\ room = DeviceRoom(reqs[r].type, reqs[r].id)
  /\ \A t \in Types, id \in Ids :
       (store[t][id] # Null /\ store[t][id].status = "online") =>
         \E r \in Reqs : RightKey(r) /\ reqs[r].type = t /\ reqs[r].id = id

\* a deviceConnect for the stored camera 1 with a wrong key was answered with the
\* error: its connection is in no room and the camera is still offline
C7_Witness ==
  \E r \in Reqs :
    /\ WrongKey(r) /\ Done(r)
    /\ reqs[r].type = "camera" /\ reqs[r].id = 1
    /\ rooms[reqs[r].conn] = {}
    /\ store["camera"][1].status = "offline"
    /\ \E i \in MsgsOf(r) : published[i].rcpt = {reqs[r].conn}

----------------------------------------------------------------------------
(* C8: a deviceConnect with the secret for a camera or signal has joined  *)
(* the calling connection to "<type>-<id>"; when its update finds the     *)
(* device the stored record gets status online and lastSeen the time of   *)
(* the event, and the handler publishes that record once, to "admin",     *)
(* and nothing else.                                                      *)
C8_State ==
  \A r \in Reqs :
    (RightKey(r) /\ reqs[r].type \in Types) =>
      LET q == reqs[r] IN
      /\ DeviceRoom(q.type, q.id) \in rooms[q.conn]
      /\ q.doc # Null =>
           /\ q.doc.status = "online" /\ q.doc.lastSeen = q.now
           /\ Done(r) =>
                /\ Cardinality(MsgsOf(r)) = 1
                /\ \A i \in MsgsOf(r) :
                     /\ published[i].event = EventOfType(q.type)
                     /\ published[i].room = AdminRoom
                     /\ published[i].payload = q.doc

\* the step in which the update of a deviceConnect runs at the store
C8_Step ==
  \A r \in Reqs :
    (reqs[r].pc = "joined" /\ reqs'[r].pc = "updated"
       /\ store[reqs[r].type][reqs[r].id] # Null) =>
      /\ store'[reqs[r].type][reqs[r].id].status = "online"
      /\ store'[reqs[r].type][reqs[r].id].lastSeen = reqs[r].now
      /\ reqs'[r].doc = Hydrate(SchemaPaths(reqs[r].type),
                                store'[reqs[r].type][reqs[r].id])

C8_ConnectOnline == [](C8_State) /\ [][C8_Step]_vars

\* a deviceConnect for the stored signal 1 is over: the connection is in
\* "signal-1", the signal is online and its record was published
C8_Witness ==
  \E r \in Reqs :
    /\ RightKey(r) /\ Done(r)
    /\ reqs[r].type = "signal" /\ reqs[r].id = 1
    /\ DeviceRoom("signal", 1) \in rooms[reqs[r].conn]
    /\ store["signal"][1].status = "online"
    /\ store["signal"][1].lastSeen = reqs[r].now
    /\ \E i \in MsgsOf(r) : published[i].payload.status = "online"

----------------------------------------------------------------------------
(* C9 (as stated): the store operation of a deviceData push for a stored  *)
(* device sets metrics to the pushed payload, lastSeen to the time of the *)
(* event, for a signal currentPhase and remainingTime to the values of    *)
(* the payload, and leaves every other field as it was.                   *)
DataTouched(type) ==
  IF type = "camera" THEN {"metrics", "lastSeen"}
  ELSE {"metrics", "lastSeen", "currentPhase", "remainingTime"}

C9_Step ==
  \A r \in Reqs :
    (/\ reqs[r].pc = "idle" /\ reqs'[r].pc = "updated"
     /\ reqs'[r].kind = "deviceData"
     /\ "metrics" \in DOMAIN reqs'[r].body
     /\ store[reqs'[r].type][reqs'[r].id] # Null) =>
      LET q == reqs'[r]
          old == store[q.type][q.id]
          new == store'[q.type][q.id]
      IN
      /\ "metrics" \in DOMAIN new /\ new.metrics = q.body.metrics
      /\ new.lastSeen = q.now
      /\ q.type = "signal" =>
           \A f \in {"currentPhase", "remainingTime"} \cap DOMAIN q.body.metrics :
             new[f] = q.body.metrics[f]
      /\ \A f \in (DOMAIN old) \ DataTouched(q.type) : f \in DOMAIN new /\ new[f] = old[f]

C9_TelemetryEffect == [][C9_Step]_vars

----------------------------------------------------------------------------
(* C10 (as stated): every deviceData event, whatever its type and id, has *)
(* published an updated device record to "admin" once it is over.         *)
IsData(r) == Started(r) /\ reqs[r].kind = "deviceData"

----------------------------------------------------------------------------
(* C11: when the Analytics.create or the Analytics.aggregate started by a  *)
(* camera deviceData push fails, the step that fails changes no record and *)
(* publishes nothing, and the push has published its cameraUpdate to      *)
(* "admin" once, no error event and no analyticsUpdate; the camera record *)
(* it updated keeps the pushed lastSeen until another handler writes it.  *)
AnalyticsFailed(r) == IsData(r) /\ reqs[r].job = "failed"

C11_State ==
  \A r \in Reqs :
    AnalyticsFailed(r) =>
      /\ Done(r)
      /\ Cardinality(MsgsOf(r)) = 1
      /\ \A i \in MsgsOf(r) :
           /\ published[i].event = "cameraUpdate"
           /\ published[i].room = AdminRoom
           /\ published[i].payload = reqs[r].doc

C11_Step ==
  \A r \in Reqs :
    (reqs[r].pc # "idle" /\ reqs[r].job # "failed" /\ reqs'[r].job = "failed") =>
      /\ store' = store
      /\ samples' = samples
      /\ published' = published

C11_AnalyticsIsolated == [](C11_State) /\ [][C11_Step]_vars

\* the aggregation of a push of camera 1 failed after its sample was inserted: the
\* camera holds the pushed metrics and the cameraUpdate went out
C11_Witness ==
  \E r \in Reqs :
    /\ AnalyticsFailed(r)
    /\ reqs[r].id = 1 /\ reqs[r].sample # Null /\ SampleValid(reqs[r].sample)
    /\ store["camera"][1] # Null
    /\ store["camera"][1].lastSeen = reqs[r].now
    /\ \E i \in MsgsOf(r) : published[i].payload.lastSeen = reqs[r].now


----------------------------------------------------------------------------
(* C12 (as stated): a step in which the status of a stored device changes  *)
(* to online is a step of a deviceConnect for that device or of an update  *)
(* of that device an operator asked for; no tick of the simulator is such  *)
(* a step.                                                                 *)
BecomesOnline(t, id) ==
  /\ store[t][id] # Null /\ store'[t][id] # Null
  /\ store[t][id].status # "online"
  /\ store'[t][id].status = "online"

OperatorKinds == UpdateKinds \cup {"cameraControl", "signalControl"}

C12_Step ==
  \A t \in Types, id \in Ids :
    BecomesOnline(t, id) =>
      \E r \in Reqs :
        /\ reqs'[r] # reqs[r]
        /\ reqs'[r].kind \in OperatorKinds \cup {"deviceConnect"}
        /\ reqs'[r].type = t /\ reqs'[r].id = id

C12_OnlineOnlyByConnectOrUpdate == [][C12_Step]_vars


----------------------------------------------------------------------------
(* C13 (as stated): a cameraControl, signalControl, deviceConnect or       *)
(* deviceData handler that failed has emitted an error event to the       *)
(* connection of the event and has emitted nothing else.                  *)
ControlKinds == {"cameraControl", "signalControl"}
SocketKinds == ControlKinds \cup {"deviceConnect", "deviceData"}

\* the handler of r threw: a wrong key, no data, or no metrics for a signal
SocketFailed(r) ==
  /\ Started(r)
  /\ CASE reqs[r].kind = "deviceConnect" -> reqs[r].body.apiKey # DeviceApiKey
       [] reqs[r].kind \in ControlKinds -> reqs[r].body = Undefined
       [] reqs[r].kind = "deviceData" ->
            reqs[r].type = "signal" /\ "metrics" \notin DOMAIN reqs[r].body
       [] OTHER -> FALSE

C13_FailureAnswersCaller ==
  \A r \in Reqs :
    (SocketFailed(r) /\ Done(r)) =>
      /\ \E i \in MsgsOf(r) :
           published[i].event = "error" /\ published[i].room = Direct(reqs[r].conn)
      /\ \A i \in MsgsOf(r) :
           published[i].event = "error" /\ published[i].rcpt \subseteq {reqs[r].conn}

----------------------------------------------------------------------------
(* C14 (as stated): a socket event that addresses a device id the store    *)
(* does not hold creates no record, inserts no sample, joins its          *)
(* connection to no group of that device and publishes no message to      *)
(* "admin" or to a device group.                                          *)
AbsentIds == Ids \ InitialIds

C14_AbsentTargetRejected ==
  \A r \in Reqs :
    (Started(r) /\ reqs[r].kind \in SocketKinds /\ reqs[r].id \in AbsentIds) =>
      /\ \A t \in Types : store[t][reqs[r].id] = Null
      /\ \A k \in DOMAIN samples : samples[k] # reqs[r].sample
      /\ DeviceRoom(reqs[r].type, reqs[r].id) \notin rooms[reqs[r].conn]
      /\ \A i \in MsgsOf(r) : published[i].event = "error"

----------------------------------------------------------------------------
(* C15 (as stated): a step of a cameraControl or signalControl handler     *)
(* whose connection has presented no token that verified leaves the store *)
(* unchanged and publishes nothing but an error to that connection.       *)
C15_Step ==
  \A r \in Reqs :
    (/\ reqs'[r] # reqs[r]
     /\ reqs'[r].kind \in ControlKinds
     /\ "valid" \notin presented[reqs'[r].conn]) =>
      /\ store' = store
      /\ \A i \in (DOMAIN published') \ (DOMAIN published) :
           published'[i].event = "error"

C15_UnauthenticatedCannotControl == [][C15_Step]_vars


----------------------------------------------------------------------------
(* C16: a create, update or delete request on the /api routes whose token  *)
(* is missing or does not verify, or whose user is neither operator nor    *)
(* admin, is answered 401 or 403 in the step it arrives in; that step      *)
(* reads and writes no record and publishes nothing, and the request never *)
(* publishes anything.                                                     *)
ApiKinds == {"apiCreateCamera", "apiPutCamera", "apiDeleteCamera",
             "apiCreateSignal", "apiPutSignal", "apiDeleteSignal"}

Unprivileged(user) ==
  IF user.token = "valid" THEN user.role \notin {"operator", "admin"} ELSE TRUE

C16_State ==
  \A r \in Reqs :
    (Started(r) /\ reqs[r].kind \in ApiKinds /\ Unprivileged(users[r])) =>
      /\ Done(r)
      /\ reqs[r].status = IF users[r].token = "none" THEN 401 ELSE 403
      /\ reqs[r].doc = Null
      /\ MsgsOf(r) = {}

C16_Step ==
  \A r \in Reqs :
    (/\ reqs[r].pc = "idle" /\ reqs'[r].pc # "idle"
     /\ reqs'[r].kind \in ApiKinds
     /\ Unprivileged(users'[r])) =>
      /\ store' = store
      /\ published' = published

C16_RejectsUnprivileged == [](C16_State) /\ [][C16_Step]_vars

\* a viewer asked to delete the stored camera 1 and a caller without a token to
\* update it: both were turned down and the camera is still stored
C16_Witness ==
  \E r1, r2 \in Reqs :
    /\ Done(r1) /\ reqs[r1].kind = "apiDeleteCamera" /\ reqs[r1].id = 1
    /\ users[r1] = UserOf("viewer") /\ reqs[r1].status = 403
    /\ Done(r2) /\ reqs[r2].kind = "apiPutCamera"
    /\ users[r2] = NoToken /\ reqs[r2].status = 401
    /\ store["camera"][1] = InitialDoc("camera", 1)
    /\ published = <<>>

----------------------------------------------------------------------------
(* C17: every connection in the room "admin" is live and has presented,    *)
(* while live, a token that verified; a connection that presented only     *)
(* tokens that are invalid or expired is not in "admin".                   *)
C17_AdminOnlyVerified ==
  \A c \in Conns :
    AdminRoom \in rooms[c] => (c \in connected /\ "valid" \in presented[c])

\* one connection joined "admin" with a valid token after an expired one, another
\* presented an invalid token and is in no room
C17_Witness ==
  \E c1, c2 \in Conns :
    /\ {"valid", "expired"} \subseteq presented[c1] /\ AdminRoom \in rooms[c1]
    /\ presented[c2] = {"invalid"} /\ c2 \in connected /\ rooms[c2] = {}

----------------------------------------------------------------------------
(* C18 (as stated): a cameraUpdate, signalUpdate or deletion notice that a *)
(* REST create, update or delete publishes is delivered only to           *)
(* connections that are in the room "admin" when it is published.         *)
RestKinds == UpdateKinds \cup DeleteKinds \cup {"apiCreateCamera", "apiCreateSignal"}

C18_Step ==
  \A i \in (DOMAIN published') \ (DOMAIN published) :
    (/\ reqs'[published'[i].req].kind \in RestKinds
     /\ published'[i].event \in UpdateEvents \cup DeletionEvents) =>
      published'[i].rcpt \subseteq {c \in connected : AdminRoom \in rooms[c]}

C18_OnlyAdminReceives == [][C18_Step]_vars

----------------------------------------------------------------------------
(* C19 (as stated): a device room "camera-<id>" or "signal-<id>" has at    *)
(* most one connection in it.                                              *)
DeviceMembers(t, id) == {c \in Conns : DeviceRoom(t, id) \in rooms[c]}

C19_OneDevicePerRoom ==
  \A t \in Types, id \in Ids : Cardinality(DeviceMembers(t, id)) <= 1

----------------------------------------------------------------------------
(* C20: a connection that has disconnected is live no more and is in no    *)
(* room, whatever handlers of it are still in flight, and no message       *)
(* published after its disconnect is delivered to it.                      *)
C20_State ==
  \A c \in closed : c \notin connected /\ rooms[c] = {}

C20_Step ==
  \A i \in (DOMAIN published') \ (DOMAIN published) :
    published'[i].rcpt \cap closed = {}

C20_DisconnectRemoves == [](C20_State) /\ [][C20_Step]_vars

\* s1 left while its deviceConnect for camera 1, which had joined it to the device
\* room, and a tick of its camera interval were in flight; the tick then emitted to
\* the closed socket and the message reached nobody
C20_Witness ==
  \E r1, r2 \in Reqs :
    /\ "s1" \in closed /\ rooms["s1"] = {}
    /\ reqs[r1].pc = "joined" /\ reqs[r1].conn = "s1" /\ reqs[r1].id = 1
    /\ Done(r2) /\ reqs[r2].kind = "cameraInterval" /\ reqs[r2].conn = "s1"
    /\ \E i \in MsgsOf(r2) :
         published[i].room = Direct("s1") /\ published[i].rcpt = {}

----------------------------------------------------------------------------
(* C21: a message is delivered at the moment it is published, to         *)
(* connections that are members of its target room at that moment, once   *)
(* each; what was published is never delivered again, so a connection     *)
(* that joins the room later does not receive the earlier message.        *)

\* the live members of a room: every socket for io.emit, the socket itself for
\* socket.emit
MembersOf(room) ==
  IF room = Everyone THEN connected
  ELSE IF room[1] = "socket" THEN {room[2]} \cap connected
  ELSE {c \in connected : room \in rooms[c]}

C21_Step ==
  /\ Len(published') >= Len(published)
  /\ \A i \in DOMAIN published : published'[i] = published[i]
  /\ \A i \in (DOMAIN published') \ (DOMAIN published) :
       published'[i].rcpt \subseteq MembersOf(published'[i].room)

----------------------------------------------------------------------------
(* C22: when the N camera telemetry pushes made so far have each inserted *)
(* their sample, the aggregate computed for the N-th insert has an        *)
(* averageTrafficVolume that is the sum of the N pushed vehicle counts    *)
(* divided by N, and the analyticsUpdate of that push carries that        *)
(* aggregate.                                                             *)

\* the camera telemetry pushes: deviceData events of a camera with metrics
IsPush(x) ==
  /\ Started(x) /\ reqs[x].kind = "deviceData" /\ reqs[x].type = "camera"
  /\ "metrics" \in DOMAIN reqs[x].body
Pushes == {x \in Reqs : IsPush(x)}

\* the sum of the vehicle counts pushed by the invocations 1..n
RECURSIVE PushedSum(_)
PushedSum(n) ==
  IF n = 0 THEN 0
  ELSE (IF IsPush(n) THEN reqs[n].body.metrics.vehicleCount ELSE 0) + PushedSum(n - 1)

C22_State ==
  \A i \in DOMAIN published :
    published[i].event = "analyticsUpdate" =>
      published[i].payload = reqs[published[i].req].agg

C22_Step ==
  \A r \in Reqs :
    (/\ Started(r) /\ reqs[r].job = "aggregate" /\ reqs'[r].job = "emit"
     /\ Cardinality(Pushes) = Len(samples)
     /\ samples[Len(samples)] = reqs[r].sample)
    => /\ reqs'[r].agg # Null
       /\ reqs'[r].agg.averageTrafficVolume =
            [sum |-> PushedSum(MaxReq), count |-> Cardinality(Pushes)]

C22_MeanOfPushes == [](C22_State) /\ [][C22_Step]_vars

\* two pushes with the vehicle counts 4 and 2 were inserted, and the
\* analyticsUpdate of the second insert was published with their mean, 6 / 2
C22_Witness ==
  \E i \in DOMAIN published :
    /\ published[i].event = "analyticsUpdate"
    /\ published[i].payload.averageTrafficVolume = [sum |-> 6, count |-> 2]
    /\ Len(samples) = 2
    /\ samples[2] = reqs[published[i].req].sample

----------------------------------------------------------------------------
(* C23: every analyticsUpdate carries, besides the means of traffic        *)
(* volume and speed, one congestion-level label and one vehicle-type       *)
(* breakdown for each sample the means were taken over.                    *)

C23_AggregateLists ==
  \A i \in DOMAIN published :
    published[i].event = "analyticsUpdate" =>
      LET p == published[i].payload IN
      /\ {"averageTrafficVolume", "averageSpeed"} \subseteq DOMAIN p
      /\ "vehicleTypesAggregate" \in DOMAIN p
      /\ Len(p.vehicleTypesAggregate) = p.averageTrafficVolume.count
      /\ "congestionLevels" \in DOMAIN p
      /\ Len(p.congestionLevels) = p.averageTrafficVolume.count

----------------------------------------------------------------------------
(* C24: in the trend of an answered overview, the label of an hour bucket *)
(* is Low when its averaged congestion score is below 1.5, Moderate when   *)
(* it is at least 1.5 and below 2.5, and High when it is 2.5 or more.      *)

IsOverview(r) == Started(r) /\ reqs[r].kind = "overview" /\ Done(r)

C24_TrendThresholds ==
  \A r \in Reqs : IsOverview(r) =>
    /\ DOMAIN reqs[r].resp.trafficTrend = DOMAIN reqs[r].doc
    /\ \A b \in DOMAIN reqs[r].doc :
         LET score == reqs[r].doc[b].averageCongestion
             label == reqs[r].resp.trafficTrend[b].congestionLevel
         IN  /\ (10 * score.sum < 15 * score.count) => label = "Low"
             /\ (10 * score.sum >= 15 * score.count /\ 10 * score.sum < 25 * score.count)
                  => label = "Moderate"
             /\ (10 * score.sum >= 25 * score.count) => label = "High"

\* an answered overview has a bucket of four samples that averages exactly 1.5
\* and is labelled Moderate
C24_Witness ==
  \E r \in Reqs :
    /\ IsOverview(r)
    /\ \E b \in DOMAIN reqs[r].doc :
         /\ reqs[r].doc[b].averageCongestion = [sum |-> 6, count |-> 4]
         /\ reqs[r].resp.trafficTrend[b].congestionLevel = "Moderate"

----------------------------------------------------------------------------
(* C25: in the trend, a stored sample counts 1 when its level is the low  *)
(* one, 2 when it is the middle one and 3 when it is the high one, so an   *)
(* hour bucket whose samples are all of the middle level the Analytics     *)
(* enum stores (Medium) averages 2 and is labelled Moderate.               *)

\* the samples of bucket b that the overview r matched
BucketSamples(r, b) ==
  SelectSeq(samples, LAMBDA x : /\ x.timestamp >= reqs[r].now - DayWindow
                                /\ HourOf(x.timestamp) = b)

\* the score of a level: Low 1, Medium 2, High 3
SeverityScore(level) == IF level = "High" THEN 3 ELSE IF level = "Medium" THEN 2 ELSE 1

RECURSIVE SeveritySum(_)
SeveritySum(seq) ==
  IF seq = <<>> THEN 0 ELSE SeverityScore(Head(seq).congestionLevel) + SeveritySum(Tail(seq))

C25_MiddleLevelScoresTwo ==
  \A r \in Reqs : IsOverview(r) =>
    \A b \in DOMAIN reqs[r].doc :
      /\ reqs[r].doc[b].averageCongestion.sum = SeveritySum(BucketSamples(r, b))
      /\ (\A i \in DOMAIN BucketSamples(r, b) :
            BucketSamples(r, b)[i].congestionLevel = "Medium")
           => reqs[r].resp.trafficTrend[b].congestionLevel = "Moderate"

----------------------------------------------------------------------------
(* C26: when two updates of the same stored camera carry different status *)
(* values and nothing else writes to that camera, both answer 200 and the  *)
(* stored status is the one of the update whose store write committed      *)
(* last.                                                                   *)

\* the order in which store writes committed: findByIdAndUpdate of router.put
\* runs in the step that starts the request, so those commit in arrival order;
\* save() of app.put commits at the clock value it recorded
CommitRank(r) == IF reqs[r].kind = "putCamera" THEN r ELSE reqs[r].now

StatusUpdate(r) ==
  /\ Started(r) /\ reqs[r].kind \in {"putCamera", "apiPutCamera"}
  /\ "status" \in DOMAIN reqs[r].body

C26_LastWriteWins ==
  \A r1, r2 \in Reqs :
    (/\ r1 # r2 /\ StatusUpdate(r1) /\ StatusUpdate(r2)
     /\ Done(r1) /\ Done(r2)
     /\ reqs[r1].kind = reqs[r2].kind /\ reqs[r1].id = reqs[r2].id
     /\ reqs[r1].body.status # reqs[r2].body.status
     /\ reqs[r1].id \in InitialIds
     /\ \A r3 \in Reqs \ {r1, r2} :
          ~Started(r3) \/ reqs[r3].type # "camera" \/ reqs[r3].id # reqs[r1].id
     /\ CommitRank(r1) < CommitRank(r2))
    => /\ reqs[r1].status = 200 /\ reqs[r2].status = 200
       /\ store["camera"][reqs[r1].id] # Null
       /\ store["camera"][reqs[r1].id].status = reqs[r2].body.status

----------------------------------------------------------------------------
(* C27: every tick of the simulator that saved a camera or a signal has   *)
(* published that record exactly once, to a room that reaches the members *)
(* of "admin".                                                            *)

TickKinds == {"cameraInterval", "signalInterval"}

\* a tick that is over and whose save() committed
TickMutated(r) ==
  /\ Started(r) /\ reqs[r].kind \in TickKinds
  /\ Done(r) /\ reqs[r].now > 0

C27_SimulatorPublishesToAdmin ==
  \A r \in Reqs : TickMutated(r) =>
    /\ Cardinality(MsgsOfEvent(r, {EventOfType(reqs[r].type)})) = 1
    /\ \A i \in MsgsOf(r) : ReachesAdmin(published[i].room)

----------------------------------------------------------------------------
(* C28: a REST mutation whose store operation failed is answered 500 with *)
(* a message, and a REST mutation that was answered 500 has published no   *)
(* message at all.                                                         *)

MutationKinds == UpdateKinds \cup DeleteKinds \cup {"apiCreateCamera", "apiCreateSignal"}

\* the store operation of r failed and its catch has not run yet
StoreFailed(r) == Started(r) /\ reqs[r].pc \in {"rejected", "failed"}

C28_State ==
  \A r \in Reqs :
    /\ StoreFailed(r) => MsgsOf(r) = {}
    /\ (Started(r) /\ reqs[r].kind \in MutationKinds /\ Done(r) /\ reqs[r].status = 500)
         => /\ MsgsOf(r) = {}
            /\ "message" \in DOMAIN reqs[r].resp

C28_Step ==
  \A r \in Reqs :
    (StoreFailed(r) /\ reqs'[r] # reqs[r])
      => /\ reqs'[r].pc = "done"
         /\ reqs'[r].status = 500
         /\ "message" \in DOMAIN reqs'[r].resp
         /\ published' = published
         /\ store' = store

C28_FailureAnswers500 == [](C28_State) /\ [][C28_Step]_vars

\* an update of routes/signals.js whose findByIdAndUpdate rejected was answered 500
C28_Witness ==
  \E r \in Reqs :
    /\ reqs[r].pc = "done" /\ reqs[r].kind = "putSignal"
    /\ reqs[r].doc = Null /\ reqs[r].status = 500

----------------------------------------------------------------------------
(* C29: an update of routes/cameras.js or routes/signals.js whose body    *)
(* has fields outside the set the route allows answers 200 when the        *)
(* device exists, its store write leaves the stored values of those        *)
(* fields as they were, and no message it publishes carries the value      *)
(* the body gave them.                                                     *)

\* the fields a route accepts
AllowedOf(kind) ==
  IF kind = "putCamera" THEN {"name", "status", "settings"}
  ELSE IF kind = "putSignal" THEN {"name", "status", "mode", "currentPhase", "remainingTime"}
  ELSE {"settings"}

RouterUpdateKinds == {"putCamera", "putCameraSettings", "putSignal", "putSignalSettings"}

UnknownFields(q) == (DOMAIN q.body) \ AllowedOf(q.kind)

\* an update that reached its store operation with fields the route does not allow
HasUnknown(q) ==
  /\ q.pc \in {"updated", "done"} /\ q.kind \in RouterUpdateKinds
  /\ UnknownFields(q) # {}

\* path f of the stored document (type, id) is the same before and after a step
SamePath(type, id, f) ==
  /\ (store'[type][id] = Null) <=> (store[type][id] = Null)
  /\ store[type][id] # Null =>
       /\ (f \in DOMAIN store'[type][id]) <=> (f \in DOMAIN store[type][id])
       /\ f \in DOMAIN store[type][id] => store'[type][id][f] = store[type][id][f]

\* another request gave field f the value the body of r gives it
GivenElsewhere(r, f) ==
  \E x \in Reqs \ {r} :
    /\ Started(x) /\ f \in DOMAIN reqs[x].body
    /\ reqs[x].body[f] = reqs[r].body[f]

C29_State ==
  \A r \in Reqs : (HasUnknown(reqs[r]) /\ reqs[r].pc = "done" /\ reqs[r].status # 500) =>
    /\ reqs[r].status = IF reqs[r].doc = Null THEN 404 ELSE 200
    /\ \A i \in MsgsOf(r), f \in UnknownFields(reqs[r]) :
         LET p == published[i].payload IN
         (p # Undefined /\ f \in DOMAIN p /\ ~GivenElsewhere(r, f))
           => p[f] # reqs[r].body[f]

C29_Step ==
  \A r \in Reqs :
    (reqs[r].pc = "idle" /\ HasUnknown(reqs'[r])) =>
      \A f \in UnknownFields(reqs'[r]) : SamePath(reqs'[r].type, reqs'[r].id, f)

C29_UnknownFieldsIgnored == [](C29_State) /\ [][C29_Step]_vars

\* a camera update with a lastSeen in its body was answered 200 and published the
\* camera
C29_Witness ==
  \E r \in Reqs :
    /\ reqs[r].pc = "done" /\ reqs[r].kind = "putCamera"
    /\ "lastSeen" \in DOMAIN reqs[r].body
    /\ reqs[r].status = 200
    /\ MsgsOfEvent(r, {"cameraUpdate"}) # {}

----------------------------------------------------------------------------
(* C30: the store write of a REST update leaves every field the route     *)
(* allows and the body omits as it was stored: present with the same      *)
(* value, or absent.                                                       *)

\* the fields the routes of index.js accept
ApiAllowedOf(kind) ==
  IF kind = "apiPutCamera" THEN {"name", "status"}
  ELSE {"name", "status", "mode", "currentPhase", "congestionLevel"}

\* the step in which the update r writes to the store
WritesNow(r) ==
  \/ reqs[r].pc = "idle" /\ reqs'[r].pc = "updated" /\ reqs'[r].kind \in RouterUpdateKinds
  \/ /\ reqs[r].pc = "loaded" /\ reqs'[r].pc = "saved"
     /\ reqs[r].kind \in {"apiPutCamera", "apiPutSignal"}

C30_Step ==
  \A r \in Reqs : WritesNow(r) =>
    LET q == reqs'[r]
        allowed == IF q.kind \in RouterUpdateKinds THEN AllowedOf(q.kind)
                   ELSE ApiAllowedOf(q.kind)
    IN  \A f \in allowed \ DOMAIN q.body : SamePath(q.type, q.id, f)

C30_SparseUpdate == [][C30_Step]_vars

----------------------------------------------------------------------------
(* C31: once the disconnect of a connection has been processed, no tick   *)
(* of its simulator writes to the store or delivers an update, a tick     *)
(* that was in flight at the disconnect included.                         *)

C31_Step ==
  \A r \in Reqs :
    (/\ Started(r) /\ reqs[r].kind \in TickKinds
     /\ reqs[r].conn \in closed
     /\ reqs'[r] # reqs[r])
    => /\ store' = store
       /\ \A i \in (DOMAIN published') \ (DOMAIN published) :
            published'[i].req = r => published'[i].rcpt = {}

C31_SimulatorStopsAtDisconnect == [][C31_Step]_vars

----------------------------------------------------------------------------
(* C32: for every REST update that was committed and answered, and every  *)
(* live connection that has joined "admin", the connection was sent an     *)
(* initialData snapshot that holds the updated record or was delivered     *)
(* the update message of that update.                                      *)

\* connection c was sent a snapshot that holds the record update r saved
Reflected(c, r) ==
  \E i \in DOMAIN published :
    /\ published[i].event = "initialData"
    /\ c \in published[i].rcpt
    /\ published[i].payload[reqs[r].type][reqs[r].id] = reqs[r].doc

\* connection c was delivered the update message of r
Delivered(c, r) ==
  \E i \in MsgsOfEvent(r, UpdateEvents) : c \in published[i].rcpt

C32_SnapshotCoversGap ==
  \A r \in Reqs, c \in connected :
    (UpdateSucceeded(r) /\ AdminRoom \in rooms[c])
      => Reflected(c, r) \/ Delivered(c, r)

----------------------------------------------------------------------------
(* C33: when a deviceConnect answers its caller with an error event, the  *)
(* calling connection is not a member of the room of that device after     *)
(* the answer.                                                             *)

C33_Step ==
  \A r \in Reqs :
    (/\ reqs'[r].pc = "done" /\ reqs[r].pc # "done"
     /\ reqs'[r].kind = "deviceConnect"
     /\ \E i \in (DOMAIN published') \ (DOMAIN published) :
          published'[i].req = r /\ published'[i].event = "error")
    => DeviceRoom(reqs'[r].type, reqs'[r].id) \notin rooms'[reqs'[r].conn]

C33_ErrorMeansNotJoined == [][C33_Step]_vars

----------------------------------------------------------------------------
(* C37: POST /signals/:id/control on a signal it found saves mode as the  *)
(* requested mode, or Manual when none is given, sets currentPhase to a    *)
(* given phase and leaves it alone otherwise, leaves remainingTime alone   *)
(* unless a duration is given, and when answered 200 has published one     *)
(* signalUpdate with the saved record to "admin" and one controlCommand    *)
(* {mode, phase, duration} to the room of the signal; on an id it does     *)
(* not find it answers 404, writes nothing and publishes nothing.          *)

IsPostControl(r) == Started(r) /\ reqs[r].kind = "postSignalControl"

Given(body, f) == f \in DOMAIN body

C37_State ==
  \A r \in Reqs : (IsPostControl(r) /\ Done(r)) =>
    /\ reqs[r].doc = Null => (reqs[r].status = 404 /\ MsgsOf(r) = {})
    /\ reqs[r].status = 404 => reqs[r].doc = Null
    /\ reqs[r].status = 200 =>
         /\ Cardinality(MsgsOf(r)) = 2
         /\ \E i \in MsgsOf(r) :
              /\ published[i].event = "signalUpdate"
              /\ published[i].room = AdminRoom
              /\ published[i].payload = reqs[r].resp
              /\ published[i].payload.mode =
                   (IF Given(reqs[r].body, "mode") THEN reqs[r].body.mode ELSE "Manual")
         /\ \E i \in MsgsOf(r) :
              /\ published[i].event = "controlCommand"
              /\ published[i].room = DeviceRoom("signal", reqs[r].id)
              /\ DOMAIN published[i].payload = {"mode", "phase", "duration"}
              /\ published[i].payload.mode = reqs[r].resp.mode

C37_Step ==
  \A r \in Reqs :
    /\ (reqs[r].pc = "loaded" /\ reqs[r].kind = "postSignalControl" /\ reqs[r].doc = Null
          /\ reqs'[r] # reqs[r])
         => (store' = store /\ published' = published /\ reqs'[r].status = 404)
    /\ (reqs[r].pc = "loaded" /\ reqs[r].kind = "postSignalControl" /\ reqs[r].doc # Null
          /\ reqs'[r] # reqs[r] /\ store["signal"][reqs[r].id] # Null
          /\ reqs[r].doc.name \notin {"null", ""})
         => reqs'[r].pc = "saved"
    /\ (reqs[r].pc = "loaded" /\ reqs'[r].pc = "saved" /\ reqs[r].kind = "postSignalControl")
         => LET b == reqs[r].body
                new == store'["signal"][reqs[r].id]
            IN  /\ new # Null
                /\ new.mode = (IF Given(b, "mode") THEN b.mode ELSE "Manual")
                /\ new = reqs'[r].doc \/ DOMAIN new # DOMAIN reqs'[r].doc
                /\ IF Given(b, "phase") THEN new.currentPhase = b.phase
                   ELSE SamePath("signal", reqs[r].id, "currentPhase")
                /\ Given(b, "duration") \/ SamePath("signal", reqs[r].id, "remainingTime")
                /\ \A f \in SignalPaths \ {"mode", "currentPhase", "remainingTime"} :
                     SamePath("signal", reqs[r].id, f)

C37_ManualControl == [](C37_State) /\ [][C37_Step]_vars

\* a control request without a mode and with a phase and a duration was answered 200
\* with mode Manual
C37_Witness ==
  \E r \in Reqs :
    /\ IsPostControl(r) /\ Done(r) /\ reqs[r].status = 200
    /\ reqs[r].body = [phase |-> "East-West Green", duration |-> 30]
    /\ reqs[r].resp.mode = "Manual"
    /\ store["signal"][reqs[r].id] # Null
    /\ store["signal"][reqs[r].id].currentPhase = "East-West Green"

----------------------------------------------------------------------------
(* C34: once the deletion notice for a device id has been published, no   *)
(* cameraUpdate/signalUpdate, configUpdate or controlCommand concerning    *)
(* that id is published after it, whatever was in flight for that id when  *)
(* the delete committed.                                                   *)

UpdateMessages == UpdateEvents \cup {"configUpdate", "controlCommand"}

\* the device a published message concerns: that of the invocation that emitted it
Concerns(i) == <<reqs[published[i].req].type, reqs[published[i].req].id>>

C34_NoUpdateAfterDeletionNotice ==
  \A i, j \in DOMAIN published :
    (i < j /\ published[i].event \in DeletionEvents
           /\ published[j].event \in UpdateMessages)
      => Concerns(i) # Concerns(j)

----------------------------------------------------------------------------
(* C36: no step of a GET route changes the device store or the analytics  *)
(* store or publishes a message, in every state, the one with an empty     *)
(* analytics store included.                                               *)

ReadKinds == {"getDevice", "apiGetAnalytics", "overview"}

C36_Step ==
  \A r \in Reqs :
    (reqs'[r] # reqs[r] /\ reqs'[r].kind \in ReadKinds)
      => (store' = store /\ samples' = samples /\ published' = published)

C36_ReadsChangeNothing == [][C36_Step]_vars

----------------------------------------------------------------------------
(* C35: the disconnect of a connection changes no device record, so a     *)
(* device that deviceConnect set online is still online after its          *)
(* connection has disconnected; and a step that moves the status of a      *)
(* record away from online is a step of an explicit update (a PUT or a     *)
(* control command) or of the simulator.                                   *)

StatusMovers == UpdateKinds \cup TickKinds \cup {"cameraControl", "signalControl"}

LeftOnline(t, id) ==
  /\ store[t][id] # Null /\ store'[t][id] # Null
  /\ "status" \in DOMAIN store[t][id] /\ store[t][id].status = "online"
  /\ ("status" \notin DOMAIN store'[t][id] \/ store'[t][id].status # "online")

C35_Step ==
  /\ closed' # closed => store' = store
  /\ \A t \in Types, id \in Ids :
       LeftOnline(t, id) =>
         \E r \in Reqs : reqs'[r] # reqs[r] /\ reqs'[r].kind \in StatusMovers

C35_DisconnectKeepsStatus == [][C35_Step]_vars

\* the only invocation was a deviceConnect, its connection has disconnected and the
\* device is still online
C35_Witness ==
  \E r \in Reqs :
    /\ Done(r) /\ reqs[r].kind = "deviceConnect" /\ reqs[r].type \in Types
    /\ reqs[r].conn \in closed
    /\ \A o \in Reqs \ {r} : ~Started(o)
    /\ store[reqs[r].type][reqs[r].id] # Null
    /\ store[reqs[r].type][reqs[r].id].status = "online"

====
